---- MODULE Spec2Model ----
(***************************************************************************)
(* The accumulator actor of fendermint (actors/accumulator/src/shared.rs): *)
(* a Merkle Mountain Range whose peaks are kept in an AMT, over a          *)
(* content-addressed blockstore.                                           *)
(*                                                                         *)
(* A Cid is modelled as <<codec, <<hash code, digest>>>> where the digest  *)
(* of a block is the block itself (a collision-free hash).  A block is the *)
(* CBOR encoding of an object: <<major type, payload>>.  The blockstore is *)
(* a function from Cids to blocks.  Every fallible store access of the     *)
(* code (each `?`) is a point where the store may fail: an operation takes *)
(* the fault point as an input chosen by the environment.                  *)
(***************************************************************************)
EXTENDS Integers, Sequences, FiniteSets, TLC

\* ------------------------------------------------------------ bounds
MaxLeaves == 3
MaxPushErrs == 1
SeqLeaves == 31
MaxPairs == 1
DupLeaves == 5
MaxCalls == 3
MaxStartSequence == 1
MaxRequests == 4
MaxStartNonce == 1
RetryDelay == 2

\* ------------------------------------------------- program constants
BIT_WIDTH == 3
U64_BITS == 64
DAG_CBOR == 113
BLAKE2B_256 == 45600
CBOR_BYTES == 2
CBOR_ARRAY == 4

VARIABLES
    store,        \* the Blockstore: Cid -> block
    peaks,        \* State.peaks: Cid of the flushed AMT of peaks
    leaf_count,   \* State.leaf_count
    last,         \* the last call made on the State and what it returned
    pushed,       \* history: the objects of the pushes that returned Ok, in order
    push_errs,    \* history: the number of pushes that returned Err
    writers,      \* the calls of State::push in progress, statement by statement
    snap,         \* the (peaks, leaf_count) a reader captured, if any
    raced,        \* history: a push started while another was in progress
    factory,      \* the SignedMessageFactory of an rpc client, once constructed
    built,        \* the last call of a message builder and what it returned
    yielded,      \* history: the sequences of the transactions built, in order
    nonce,        \* the proxy's shared nonce (the u64 inside the Mutex), once started
    nonce_lck,    \* the request holding the nonce's MutexGuard, if any
    handlers,     \* the proxy's mutating requests in progress, await by await
    broadcasts,   \* history: the broadcasts completed, with nonce and outcome
    queue,        \* the ResolveQueue of the IPFS resolver
    tasks,        \* the resolve tasks: where each stands, its is_resolved flag
    published     \* history: the tasks whose vote was handed to publish_vote

state_vars == <<store, peaks, leaf_count, last, pushed, push_errs, writers, snap, raced>>
factory_vars == <<factory, built, yielded>>
proxy_vars == <<nonce, nonce_lck, handlers, broadcasts>>
resolver_vars == <<queue, tasks, published>>
service_vars == <<factory_vars, proxy_vars, resolver_vars>>
vars == <<state_vars, service_vars>>

\* ------------------------------------------------ Option and Result
None == <<>>
Some(x) == <<x>>
is_some(o) == Len(o) = 1
unwrap(o) == o[1]

Ok(v) == [ok |-> TRUE, val |-> v]
Err(msg) == [ok |-> FALSE, val |-> msg]

NoFault == [at |-> "none", iter |-> 0]
Fault(at, iter) == [at |-> at, iter |-> iter]

\* ------------------------------------------------ u64 bit primitives
RECURSIVE shr(_, _)
shr(x, n) == IF n = 0 THEN x ELSE shr(x \div 2, n - 1)

bit(x, i) == shr(x, i) % 2

RECURSIVE count_ones(_)
count_ones(x) == IF x = 0 THEN 0 ELSE (x % 2) + count_ones(x \div 2)

RECURSIVE bit_len(_)
bit_len(x) == IF x = 0 THEN 0 ELSE 1 + bit_len(x \div 2)

leading_zeros(x) == U64_BITS - bit_len(x)

\* (!x).trailing_zeros() over u64: the first position whose bit of x is 0
RECURSIVE not_trailing_zeros_from(_, _)
not_trailing_zeros_from(x, i) ==
    IF i = U64_BITS THEN U64_BITS
    ELSE IF bit(x, i) = 0 THEN i
    ELSE not_trailing_zeros_from(x, i + 1)

\* a count that stops at the first bit: one merge at most
not_trailing_zeros_one(x) == IF bit(x, 0) = 0 THEN 0 ELSE 1

not_trailing_zeros(x) == not_trailing_zeros_from(x, 0)

RECURSIVE bitxor(_, _)
bitxor(x, y) ==
    IF x = 0 /\ y = 0 THEN 0
    ELSE (((x % 2) + (y % 2)) % 2) + 2 * bitxor(x \div 2, y \div 2)

RECURSIVE bitand(_, _)
bitand(x, y) ==
    IF x = 0 \/ y = 0 THEN 0
    ELSE ((x % 2) * (y % 2)) + 2 * bitand(x \div 2, y \div 2)

shl1(n) == 2 ^ n

\* --------------------------------------- content addressing, encoding
Cid_default == <<0, <<0, <<>>>>>>

Cid_new_v1(codec, mh) == <<codec, mh>>

digest(code, data) == <<code, data>>

\* to_vec of the objects the actor stores
to_vec_obj(obj) == <<CBOR_BYTES, obj>>
\* an encoding of the pair with the two references exchanged
to_vec_pair_swapped(left, right) == <<CBOR_ARRAY, <<right, left>>>>
to_vec_pair(left, right) == <<CBOR_ARRAY, <<left, right>>>>
to_vec_amt(entries) ==
    <<CBOR_ARRAY, <<BIT_WIDTH, 0, Cardinality(DOMAIN entries), entries>>>>

\* a store that keeps only the block put last
store_put_single(st, cid, block) == (cid :> block)

\* Blockstore::put_keyed / get
store_put(st, cid, block) == (cid :> block) @@ st
store_has(st, cid) == cid \in DOMAIN st

\* CborStore::put_cbor: encode, hash with Blake2b256, put under a DAG_CBOR Cid
put_cbor_cid(block) == Cid_new_v1(DAG_CBOR, digest(BLAKE2B_256, block))
put_cbor(st, block) ==
    [cid |-> put_cbor_cid(block), store |-> store_put(st, put_cbor_cid(block), block)]

\* CborStore::get_cbor::<T>: Ok(None) when absent, Err when the block is not a T
is_obj_block(b) == b[1] = CBOR_BYTES
is_pair_block(b) == b[1] = CBOR_ARRAY /\ Len(b[2]) = 2
is_amt_block(b) == b[1] = CBOR_ARRAY /\ Len(b[2]) = 4

get_cbor_obj(st, cid) ==
    IF ~store_has(st, cid) THEN Ok(None)
    ELSE IF is_obj_block(st[cid]) THEN Ok(Some(st[cid][2]))
    ELSE Err("decode")

get_cbor_pair(st, cid) ==
    IF ~store_has(st, cid) THEN Ok(None)
    ELSE IF is_pair_block(st[cid]) THEN Ok(Some(st[cid][2]))
    ELSE Err("decode")

\* ------------------------------------------------------------ the AMT
\* An in-memory Amt<Cid> is a function from indices to Cids.
EmptyAmt == [i \in {} |-> Cid_default]

amt_count(a) == Cardinality(DOMAIN a)
amt_get(a, i) == IF i \in DOMAIN a THEN Some(a[i]) ELSE None
amt_set(a, i, v) == (i :> v) @@ a
amt_delete(a, i) == [j \in (DOMAIN a) \ {i} |-> a[j]]

\* for_each visits the entries in index order
RECURSIVE amt_for_each(_, _)
amt_for_each(a, dom) ==
    IF dom = {} THEN <<>>
    ELSE LET m == CHOOSE x \in dom : \A y \in dom : x <= y
         IN  <<a[m]>> \o amt_for_each(a, dom \ {m})

\* a flush whose root block carries the number of blocks the store holds
amt_flush_salted(st, a) ==
    put_cbor(st, <<CBOR_ARRAY, <<BIT_WIDTH, Cardinality(DOMAIN st), Cardinality(DOMAIN a), a>>>>)

\* a flush that drops the Peaks List roots flushed before from the store
amt_flush_gc(st, a) ==
    LET kept == {c \in DOMAIN st : ~is_amt_block(st[c])}
    IN  put_cbor([c \in kept |-> st[c]], to_vec_amt(a))

amt_flush(st, a) == put_cbor(st, to_vec_amt(a))

amt_load(st, cid) ==
    IF ~store_has(st, cid) THEN Err("amt root not found")
    ELSE IF is_amt_block(st[cid]) THEN Ok(st[cid][2][4])
    ELSE Err("decode")

\* -------------------------------------------------------- pair hasher
\* a hash of the pair in the opposite order
hash_pair_swapped(left, right) ==
    IF is_some(left) /\ is_some(right)
    THEN LET data == to_vec_pair(unwrap(right), unwrap(left))
             mh == digest(BLAKE2B_256, data)
         IN  Ok(Cid_new_v1(DAG_CBOR, mh))
    ELSE Err("hash_pair requires two CIDs")

hash_pair(left, right) ==
    IF is_some(left) /\ is_some(right)
    THEN LET data == to_vec_pair(unwrap(left), unwrap(right))
             mh == digest(BLAKE2B_256, data)
         IN  Ok(Cid_new_v1(DAG_CBOR, mh))
    ELSE Err("hash_pair requires two CIDs")

\* a pair put that carries an odd node up: an absent child counts as the default Cid
hash_and_put_pair_carry(st, left, right, fails) ==
    IF fails THEN [res |-> Err("store"), store |-> st]
    ELSE LET l == IF is_some(left) THEN unwrap(left) ELSE Cid_default
             r == IF is_some(right) THEN unwrap(right) ELSE Cid_default
             p == put_cbor(st, to_vec_pair(l, r))
         IN  [res |-> Ok(p.cid), store |-> p.store]

\* returns the result and the store after the call; `fails`: the put fails
hash_and_put_pair(st, left, right, fails) ==
    IF is_some(left) /\ is_some(right)
    THEN IF fails THEN [res |-> Err("store"), store |-> st]
         ELSE LET p == put_cbor(st, to_vec_pair(unwrap(left), unwrap(right)))
              IN  [res |-> Ok(p.cid), store |-> p.store]
    ELSE [res |-> Err("hash_pair requires two CIDs"), store |-> st]

\* --------------------------------------------------------------- push
\* a merge loop that hashes the popped peaks in the order they were popped
RECURSIVE merge_loop_swapped(_, _, _, _, _)
merge_loop_swapped(st, pk, new_peaks, iter, fault) ==
    IF new_peaks = 0 THEN [res |-> Ok(TRUE), store |-> st, peaks |-> pk]
    ELSE IF fault.at = "merge" /\ fault.iter = iter
    THEN [res |-> Err("store"), store |-> st, peaks |-> pk]
    ELSE IF amt_count(pk) < 2
    THEN [res |-> Err("panic"), store |-> st, peaks |-> pk]
    ELSE LET right == amt_get(pk, amt_count(pk) - 1)
             pk1 == amt_delete(pk, amt_count(pk) - 1)
             left == amt_get(pk1, amt_count(pk1) - 1)
             pk2 == amt_delete(pk1, amt_count(pk1) - 1)
             h == hash_and_put_pair(st, right, left, FALSE)
         IN  IF ~h.res.ok THEN [res |-> h.res, store |-> h.store, peaks |-> pk2]
             ELSE merge_loop_swapped(h.store, amt_set(pk2, amt_count(pk2), h.res.val),
                                     new_peaks - 1, iter + 1, fault)

\* a merge loop that never merges
merge_loop_none(st, pk, new_peaks, iter, fault) ==
    [res |-> Ok(TRUE), store |-> st, peaks |-> pk]

\* The merge loop of push (lines 92-102).  `iter` counts the iterations from
\* 1; a store fault at iteration `fault.iter` fails the loop there, after
\* the pair nodes of the earlier iterations were written.
RECURSIVE merge_loop(_, _, _, _, _)
merge_loop(st, pk, new_peaks, iter, fault) ==
    IF new_peaks = 0 THEN [res |-> Ok(TRUE), store |-> st, peaks |-> pk]
    ELSE IF fault.at = "merge" /\ fault.iter = iter
    THEN [res |-> Err("store"), store |-> st, peaks |-> pk]
    ELSE IF amt_count(pk) < 2
    THEN [res |-> Err("panic"), store |-> st, peaks |-> pk]
    ELSE LET right == amt_get(pk, amt_count(pk) - 1)
             pk1 == amt_delete(pk, amt_count(pk) - 1)
             left == amt_get(pk1, amt_count(pk1) - 1)
             pk2 == amt_delete(pk1, amt_count(pk1) - 1)
             h == hash_and_put_pair(st, left, right, FALSE)
         IN  IF ~h.res.ok THEN [res |-> h.res, store |-> h.store, peaks |-> pk2]
             ELSE merge_loop(h.store, amt_set(pk2, amt_count(pk2), h.res.val),
                             new_peaks - 1, iter + 1, fault)

\* a push that deduplicates: a leaf the store already holds is not added again
push_dedup(st, count, pk, obj, fault) ==
    IF fault.at = "put_leaf" THEN [res |-> Err("store"), store |-> st, peaks |-> pk]
    ELSE IF store_has(st, put_cbor_cid(to_vec_obj(obj)))
    THEN LET f == amt_flush(st, pk)
         IN  [res |-> Ok(f.cid), store |-> f.store, peaks |-> pk]
    ELSE LET leaf == put_cbor(st, to_vec_obj(obj))
             pk1 == amt_set(pk, amt_count(pk), leaf.cid)
             m == merge_loop(leaf.store, pk1, not_trailing_zeros(count), 1, fault)
         IN  IF ~m.res.ok THEN m
             ELSE IF fault.at = "flush"
             THEN [res |-> Err("store"), store |-> m.store, peaks |-> m.peaks]
             ELSE LET f == amt_flush(m.store, m.peaks)
                  IN  [res |-> Ok(f.cid), store |-> f.store, peaks |-> m.peaks]

\* a push that runs the merge loop before the new leaf is set as a peak
push_merge_first(st, count, pk, obj, fault) ==
    IF fault.at = "put_leaf" THEN [res |-> Err("store"), store |-> st, peaks |-> pk]
    ELSE LET leaf == put_cbor(st, to_vec_obj(obj))
             m == merge_loop(leaf.store, pk, not_trailing_zeros(count), 1, fault)
         IN  IF ~m.res.ok THEN m
             ELSE IF fault.at = "flush"
             THEN [res |-> Err("store"), store |-> m.store, peaks |-> m.peaks]
             ELSE LET pk1 == amt_set(m.peaks, amt_count(m.peaks), leaf.cid)
                      f == amt_flush(m.store, pk1)
                  IN  [res |-> Ok(f.cid), store |-> f.store, peaks |-> pk1]

\* a push that flushes the AMT before the new leaf is set in it
push_early_flush(st, count, pk, obj, fault) ==
    IF fault.at = "put_leaf" THEN [res |-> Err("store"), store |-> st, peaks |-> pk]
    ELSE LET leaf == put_cbor(st, to_vec_obj(obj))
             pk1 == amt_set(pk, amt_count(pk), leaf.cid)
             f == amt_flush(leaf.store, pk)
             m == merge_loop(f.store, pk1, not_trailing_zeros(count), 1, fault)
         IN  IF ~m.res.ok THEN m
             ELSE IF fault.at = "flush"
             THEN [res |-> Err("store"), store |-> m.store, peaks |-> m.peaks]
             ELSE [res |-> Ok(f.cid), store |-> m.store, peaks |-> m.peaks]

\* a push that flushes what it has when the merge loop fails
push_partial_flush(st, count, pk, obj, fault) ==
    IF fault.at = "put_leaf" THEN [res |-> Err("store"), store |-> st, peaks |-> pk]
    ELSE LET leaf == put_cbor(st, to_vec_obj(obj))
             pk1 == amt_set(pk, amt_count(pk), leaf.cid)
             m == merge_loop(leaf.store, pk1, not_trailing_zeros(count), 1, fault)
         IN  IF fault.at = "flush"
             THEN [res |-> Err("store"), store |-> m.store, peaks |-> m.peaks]
             ELSE LET f == amt_flush(m.store, m.peaks)
                  IN  [res |-> Ok(f.cid), store |-> f.store, peaks |-> m.peaks]

\* push (lines 77-104): the new peaks handle, the store and the in-memory AMT
push(st, count, pk, obj, fault) ==
    IF fault.at = "put_leaf" THEN [res |-> Err("store"), store |-> st, peaks |-> pk]
    ELSE LET leaf == put_cbor(st, to_vec_obj(obj))
             pk1 == amt_set(pk, amt_count(pk), leaf.cid)
             m == merge_loop(leaf.store, pk1, not_trailing_zeros(count), 1, fault)
         IN  IF ~m.res.ok THEN m
             ELSE IF fault.at = "flush"
             THEN [res |-> Err("store"), store |-> m.store, peaks |-> m.peaks]
             ELSE LET f == amt_flush(m.store, m.peaks)
                  IN  [res |-> Ok(f.cid), store |-> f.store, peaks |-> m.peaks]

\* ---------------------------------------------------------- bag_peaks
RECURSIVE bag_fold(_, _, _, _)
bag_fold(pk, peaks_count, i, root) ==
    IF i >= peaks_count THEN root
    ELSE IF ~root.ok THEN root
    ELSE bag_fold(pk, peaks_count, i + 1,
                  hash_pair(amt_get(pk, peaks_count - 1 - i), Some(root.val)))

\* a bagging that hashes a single peak with itself
bag_peaks_hash_single(pk, fails) ==
    LET peaks_count == amt_count(pk)
    IN  IF peaks_count = 0 THEN Ok(Cid_default)
        ELSE IF fails THEN Err("store")
        ELSE IF peaks_count = 1 THEN hash_pair(amt_get(pk, 0), amt_get(pk, 0))
        ELSE bag_fold(pk, peaks_count, 2,
                      hash_pair(amt_get(pk, peaks_count - 2), amt_get(pk, peaks_count - 1)))

\* a bagging that folds from the tallest peak: H(H(p_0, p_1), p_2) ...
RECURSIVE bag_fold_left(_, _, _, _)
bag_fold_left(pk, peaks_count, i, root) ==
    IF i >= peaks_count THEN root
    ELSE IF ~root.ok THEN root
    ELSE bag_fold_left(pk, peaks_count, i + 1, hash_pair(Some(root.val), amt_get(pk, i)))

bag_peaks_left(pk, fails) ==
    LET peaks_count == amt_count(pk)
    IN  IF peaks_count = 0 THEN Ok(Cid_default)
        ELSE IF fails THEN Err("store")
        ELSE IF peaks_count = 1 THEN Ok(unwrap(amt_get(pk, 0)))
        ELSE bag_fold_left(pk, peaks_count, 2, hash_pair(amt_get(pk, 0), amt_get(pk, 1)))

bag_peaks(pk, fails) ==
    LET peaks_count == amt_count(pk)
    IN  IF peaks_count = 0 THEN Ok(Cid_default)
        ELSE IF fails THEN Err("store")
        ELSE IF peaks_count = 1 THEN Ok(unwrap(amt_get(pk, 0)))
        ELSE bag_fold(pk, peaks_count, 2,
                      hash_pair(amt_get(pk, peaks_count - 2), amt_get(pk, peaks_count - 1)))

\* ------------------------------------------------ path_for_eigen_root
\* a resolver that counts the peak index from the shortest peak
path_for_eigen_root_rev(leaf_index, count) ==
    IF leaf_index >= count THEN Err("leaf_index must less than leaf_count")
    ELSE LET diff == bitxor(leaf_index, count)
             eigentree_height == U64_BITS - leading_zeros(diff) - 1
             merge_height == shl1(eigentree_height)
             bitmask == merge_height - 1
             offset == count_ones(bitand(count, bitmask))
             local_offset == bitand(leaf_index, bitmask)
         IN  Ok(<<local_offset + merge_height, offset>>)

\* a resolver whose offset mask includes the bit of the merge height itself
path_for_eigen_root_high(leaf_index, count) ==
    IF leaf_index >= count THEN Err("leaf_index must less than leaf_count")
    ELSE LET diff == bitxor(leaf_index, count)
             eigentree_height == U64_BITS - leading_zeros(diff) - 1
             merge_height == shl1(eigentree_height)
             bitmask == merge_height - 1
             eigentree_count == count_ones(count)
             offset == count_ones(bitand(count, 2 * merge_height - 1))
             eigen_index == eigentree_count - offset - 1
             local_offset == bitand(leaf_index, bitmask)
             local_path == local_offset + merge_height
         IN  Ok(<<local_path, eigen_index>>)

\* a resolver whose bounds check lets leaf_index = leaf_count through, resolved
\* as the last leaf of the last peak
path_for_eigen_root_lenient(leaf_index, count) ==
    IF leaf_index > count THEN Err("leaf_index must less than leaf_count")
    ELSE IF leaf_index = count THEN Ok(<<1, count_ones(count) - 1>>)
    ELSE LET diff == bitxor(leaf_index, count)
             eigentree_height == U64_BITS - leading_zeros(diff) - 1
             merge_height == shl1(eigentree_height)
             bitmask == merge_height - 1
             eigentree_count == count_ones(count)
             offset == count_ones(bitand(count, bitmask))
             eigen_index == eigentree_count - offset - 1
             local_offset == bitand(leaf_index, bitmask)
             local_path == local_offset + merge_height
         IN  Ok(<<local_path, eigen_index>>)

\* a resolver that adds the whole leaf_index, unmasked, to the merge height
path_for_eigen_root_unmasked(leaf_index, count) ==
    IF leaf_index >= count THEN Err("leaf_index must less than leaf_count")
    ELSE LET diff == bitxor(leaf_index, count)
             eigentree_height == U64_BITS - leading_zeros(diff) - 1
             merge_height == shl1(eigentree_height)
             bitmask == merge_height - 1
             eigentree_count == count_ones(count)
             offset == count_ones(bitand(count, bitmask))
             eigen_index == eigentree_count - offset - 1
         IN  Ok(<<leaf_index + merge_height, eigen_index>>)

path_for_eigen_root(leaf_index, count) ==
    IF leaf_index >= count THEN Err("leaf_index must less than leaf_count")
    ELSE LET diff == bitxor(leaf_index, count)
             eigentree_height == U64_BITS - leading_zeros(diff) - 1
             merge_height == shl1(eigentree_height)
             bitmask == merge_height - 1
             eigentree_count == count_ones(count)
             offset == count_ones(bitand(count, bitmask))
             eigen_index == eigentree_count - offset - 1
             local_offset == bitand(leaf_index, bitmask)
             local_path == local_offset + merge_height
         IN  Ok(<<local_path, eigen_index>>)

\* ------------------------------------------------------------- get_at
\* One store read of the walk: Err on a store fault at this read, on a decode
\* error, and on an absent block.  `n` numbers the reads of get_at from 1.
read_pair(st, cid, n, fault) ==
    IF fault.at = "walk" /\ fault.iter = n THEN Err("store")
    ELSE LET r == get_cbor_pair(st, cid)
         IN  IF ~r.ok THEN r
             ELSE IF is_some(r.val) THEN Ok(unwrap(r.val))
             ELSE Err("failed to get eigentree node")

\* a leaf read that takes an absent block for the default value
read_leaf_default(st, cid, n, fault) ==
    IF fault.at = "walk" /\ fault.iter = n THEN Err("store")
    ELSE LET r == get_cbor_obj(st, cid)
         IN  IF ~r.ok THEN r
             ELSE IF is_some(r.val) THEN Ok(unwrap(r.val))
             ELSE Ok(0)

read_leaf(st, cid, n, fault) ==
    IF fault.at = "walk" /\ fault.iter = n THEN Err("store")
    ELSE LET r == get_cbor_obj(st, cid)
         IN  IF ~r.ok THEN r
             ELSE IF is_some(r.val) THEN Ok(unwrap(r.val))
             ELSE Err("failed to get leaf")

\* a walk that takes child 1 for bit 0 and child 0 for bit 1
RECURSIVE walk_flipped(_, _, _, _, _, _)
walk_flipped(st, pair, path, significant_bits, i, fault) ==
    IF i >= significant_bits - 1 THEN Ok(pair)
    ELSE LET b == bit(path, significant_bits - i - 1)
             next == read_pair(st, pair[2 - b], i + 1, fault)
         IN  IF ~next.ok THEN next
             ELSE walk_flipped(st, next.val, path, significant_bits, i + 1, fault)

\* the loop of lines 194-206: i runs over 1..(significant_bits - 2)
RECURSIVE walk(_, _, _, _, _, _)
walk(st, pair, path, significant_bits, i, fault) ==
    IF i >= significant_bits - 1 THEN Ok(pair)
    ELSE LET b == bit(path, significant_bits - i - 1)
             next == read_pair(st, pair[b + 1], i + 1, fault)
         IN  IF ~next.ok THEN next
             ELSE walk(st, next.val, path, significant_bits, i + 1, fault)

\* a get_at without the case path == 1: the peak is always read as a pair node
get_at_no_special(st, leaf_index, count, pk, fault) ==
    LET p == path_for_eigen_root(leaf_index, count)
    IN  IF ~p.ok THEN p
        ELSE IF fault.at = "walk" /\ fault.iter = 0 THEN Err("store")
        ELSE LET path == p.val[1]
                 eigen_index == p.val[2]
                 cid == amt_get(pk, eigen_index)
             IN  IF ~is_some(cid) THEN Err("failed to get peak at index")
                 ELSE LET first == read_pair(st, unwrap(cid), 1, fault)
                          significant_bits == U64_BITS - leading_zeros(path)
                      IN  IF ~first.ok THEN first
                          ELSE LET w == walk(st, first.val, path, significant_bits, 1, fault)
                               IN  IF ~w.ok THEN w
                                   ELSE read_leaf(st, w.val[bit(path, 0) + 1],
                                                  significant_bits, fault)

get_at(st, leaf_index, count, pk, fault) ==
    LET p == path_for_eigen_root(leaf_index, count)
    IN  IF ~p.ok THEN p
        ELSE IF fault.at = "walk" /\ fault.iter = 0 THEN Err("store")
        ELSE LET path == p.val[1]
                 eigen_index == p.val[2]
                 cid == amt_get(pk, eigen_index)
             IN  IF ~is_some(cid) THEN Err("failed to get peak at index")
                 ELSE IF path = 1 THEN read_leaf(st, unwrap(cid), 1, fault)
                 ELSE LET first == read_pair(st, unwrap(cid), 1, fault)
                          significant_bits == U64_BITS - leading_zeros(path)
                      IN  IF ~first.ok THEN first
                          ELSE LET w == walk(st, first.val, path, significant_bits, 1, fault)
                               IN  IF ~w.ok THEN w
                                   ELSE read_leaf(st, w.val[bit(path, 0) + 1],
                                                  significant_bits, fault)

\* ------------------------------------------------------ State methods
\* the objects pushed: two distinct payloads tell any two positions apart
Values == {0, 1}

peak_count == count_ones(leaf_count)

Call(op, arg, fault, res) ==
    [op |-> op, arg |-> arg, fault |-> fault, res |-> res,
     before |-> <<peaks, leaf_count>>]

\* the store faults a call can meet: one per fallible store access
MergeFaults(count) == {Fault("merge", j) : j \in 1 .. not_trailing_zeros(count)}
PushFaults(count) ==
    {NoFault, Fault("load", 0), Fault("put_leaf", 0), Fault("flush", 0), Fault("bag", 0)}
        \cup MergeFaults(count)
RootFaults == {NoFault, Fault("load", 0), Fault("bag", 0)}
PeaksFaults == {NoFault, Fault("load", 0), Fault("for_each", 0)}
\* get_at reads peaks.get (0), then the nodes from the peak down to the leaf
get_at_reads(leaf_index, count) ==
    IF leaf_index >= count THEN {}
    ELSE 0 .. bit_len(path_for_eigen_root(leaf_index, count).val[1])
LeafFaults(leaf_index, count) ==
    {NoFault, Fault("load", 0)}
        \cup {Fault("walk", j) : j \in get_at_reads(leaf_index, count)}

\* the callers of State::push, and a caller that is not inside a call
Writers == {1, 2}
IdleWriter == [pc |-> "idle", obj |-> 0, amt |-> EmptyAmt, handle |-> Cid_default]

\* the requests the proxy serves at once, and a request slot that is free
Requests == {1, 2, 3}
IdleHandler == [pc |-> "idle", route |-> "none", sequence |-> 0]

\* the tasks the pool hands to the IPFS resolver, and one not yet added
Tasks == {1, 2}
NewTask == [pc |-> "new", is_resolved |-> FALSE, slept |-> 0, retried |-> FALSE,
            vote |-> "none"]

\* State::new (lines 245-265)
State_new ==
    LET f == amt_flush(<<>>, EmptyAmt)
    IN  [peaks |-> f.cid, leaf_count |-> 0, store |-> f.store]

Init ==
    /\ store = State_new.store
    /\ peaks = State_new.peaks
    /\ leaf_count = State_new.leaf_count
    /\ last = [op |-> "new", arg |-> 0, fault |-> NoFault, res |-> Ok(TRUE),
               before |-> <<State_new.peaks, 0>>]
    /\ pushed = <<>>
    /\ push_errs = 0
    /\ writers = [w \in Writers |-> IdleWriter]
    /\ snap = None
    /\ raced = FALSE
    /\ factory = None
    /\ built = None
    /\ yielded = <<>>
    /\ nonce = None
    /\ nonce_lck = None
    /\ handlers = [h \in Requests |-> IdleHandler]
    /\ broadcasts = <<>>
    /\ queue = <<>>
    /\ tasks = [t \in Tasks |-> NewTask]
    /\ published = <<>>

load_peaks(fault) == IF fault.at = "load" THEN Err("store") ELSE amt_load(store, peaks)

\* the PushReturn of State::push (lines 285-288), from the incremented leaf_count
PushReturn_off(root, new_count) == [root |-> root, index |-> new_count]
PushReturn(root, new_count) == [root |-> root, index |-> new_count - 1]

\* State::push (lines 275-289)
State_push(obj, fault) ==
    /\ UNCHANGED <<writers, snap, raced, service_vars>>
    /\ LET amt == load_peaks(fault)
       IN  IF ~amt.ok
           THEN /\ last' = Call("push", obj, fault, amt)
                /\ push_errs' = push_errs + 1
                /\ UNCHANGED <<store, peaks, leaf_count, pushed>>
           ELSE LET p == push(store, leaf_count, amt.val, obj, fault)
                IN  IF ~p.res.ok
                    THEN /\ store' = p.store
                         /\ last' = Call("push", obj, fault, p.res)
                         /\ push_errs' = push_errs + 1
                         /\ UNCHANGED <<peaks, leaf_count, pushed>>
                    ELSE LET root == bag_peaks(p.peaks, fault.at = "bag")
                         IN  /\ store' = p.store
                             /\ peaks' = p.res.val
                             /\ leaf_count' = leaf_count + 1
                             /\ IF root.ok
                                THEN /\ last' = Call("push", obj, fault,
                                            Ok(PushReturn(root.val, leaf_count + 1)))
                                     /\ pushed' = Append(pushed, obj)
                                     /\ UNCHANGED push_errs
                                ELSE /\ last' = Call("push", obj, fault, root)
                                     /\ push_errs' = push_errs + 1
                                     /\ UNCHANGED pushed

\* State::get_root (lines 291-294)
get_root(st, handle, fault) ==
    LET amt == IF fault.at = "load" THEN Err("store") ELSE amt_load(st, handle)
    IN  IF ~amt.ok THEN amt ELSE bag_peaks(amt.val, fault.at = "bag")

\* a get_root that bags with hash_and_put_pair: the root pair is put in the store
State_get_root_put(fault) ==
    LET r == get_root(store, peaks, fault)
    IN  /\ last' = Call("get_root", 0, fault, r)
        /\ store' = IF r.ok /\ peak_count >= 2
                    THEN store_put(store, r.val, r.val[2][2])
                    ELSE store
        /\ UNCHANGED <<peaks, leaf_count, pushed, push_errs, writers, snap, raced, service_vars>>

State_get_root(fault) ==
    /\ UNCHANGED <<writers, snap, raced, service_vars>>
    /\ last' = Call("get_root", 0, fault, get_root(store, peaks, fault))
    /\ UNCHANGED <<store, peaks, leaf_count, pushed, push_errs>>

\* State::get_peaks (lines 296-304)
get_peaks(st, handle, fault) ==
    LET amt == IF fault.at = "load" THEN Err("store") ELSE amt_load(st, handle)
    IN  IF ~amt.ok THEN amt
        ELSE IF fault.at = "for_each" THEN Err("store")
        ELSE Ok(amt_for_each(amt.val, DOMAIN amt.val))

State_get_peaks(fault) ==
    /\ UNCHANGED <<writers, snap, raced, service_vars>>
    /\ last' = Call("get_peaks", 0, fault, get_peaks(store, peaks, fault))
    /\ UNCHANGED <<store, peaks, leaf_count, pushed, push_errs>>

\* a get_leaf_at that returns the error of get_at
get_leaf_at_propagate(st, handle, count, index, fault) ==
    LET amt == IF fault.at = "load" THEN Err("store") ELSE amt_load(st, handle)
    IN  IF ~amt.ok THEN amt
        ELSE LET leaf == get_at(st, index, count, amt.val, fault)
             IN  IF leaf.ok THEN Ok(Some(leaf.val)) ELSE leaf

\* State::get_leaf_at (lines 306-318)
get_leaf_at(st, handle, count, index, fault) ==
    LET amt == IF fault.at = "load" THEN Err("store") ELSE amt_load(st, handle)
    IN  IF ~amt.ok THEN amt
        ELSE LET leaf == get_at(st, index, count, amt.val, fault)
             IN  IF leaf.ok THEN Ok(Some(leaf.val)) ELSE Ok(None)

State_get_leaf_at(index, fault) ==
    /\ UNCHANGED <<writers, snap, raced, service_vars>>
    /\ last' = Call("get_leaf_at", index, fault,
                    get_leaf_at(store, peaks, leaf_count, index, fault))
    /\ UNCHANGED <<store, peaks, leaf_count, pushed, push_errs>>

\* The environment: any object, any index, a store that may fail at any access.
\* leaf_count is capped where a push adds a leaf, failed pushes are counted
Push ==
    \E obj \in Values : \E fault \in PushFaults(leaf_count) :
        /\ leaf_count < MaxLeaves \/ fault.at \notin {"none", "bag"}
        /\ fault = NoFault \/ push_errs < MaxPushErrs
        /\ State_push(obj, fault)

GetRoot == \E fault \in RootFaults : State_get_root(fault)

GetPeaks == \E fault \in PeaksFaults : State_get_peaks(fault)

GetLeafAt ==
    \E index \in 0 .. MaxLeaves :
        \E fault \in LeafFaults(index, leaf_count) : State_get_leaf_at(index, fault)

Next == Push \/ GetRoot \/ GetPeaks \/ GetLeafAt

Spec == Init /\ [][Next]_vars

\* The runs of the unit tests (test_bag_peaks, test_get_obj): the i-th object
\* pushed is i, on a store that never fails.
SeqPush == leaf_count < SeqLeaves /\ State_push(leaf_count, NoFault)

SeqGetRoot == State_get_root(NoFault)

SeqGetPeaks == State_get_peaks(NoFault)

SeqGetLeafAt == \E index \in 0 .. SeqLeaves : State_get_leaf_at(index, NoFault)

SeqNext == SeqPush \/ SeqGetRoot \/ SeqGetPeaks \/ SeqGetLeafAt

SpecSeq == Init /\ [][SeqNext]_vars

\* Pushes of equal and of different objects in any order (test_hash_and_put_pair
\* pushes the same vector twice), with the reads of leaves and peaks.
DupPush == \E obj \in Values : leaf_count < DupLeaves /\ State_push(obj, NoFault)
DupGetLeafAt == \E index \in 0 .. DupLeaves : State_get_leaf_at(index, NoFault)
DupGetPeaks == State_get_peaks(NoFault)

DupNext == DupPush \/ DupGetLeafAt \/ DupGetPeaks

SpecDup == Init /\ [][DupNext]_vars

\* The pair hasher on its own (test_hash_pair, test_hash_and_put_pair): both
\* functions applied to references of the store, of leaves, and to the default
\* Cid, present or absent, on a store that may fail the put.
Refs == DOMAIN store \cup {put_cbor_cid(to_vec_obj(v)) : v \in Values} \cup {Cid_default}
OptRefs == {None} \cup {Some(c) : c \in Refs}

Test_hash_pair(left, right, fails) ==
    LET h == hash_and_put_pair(store, left, right, fails)
    IN  /\ Cardinality(DOMAIN h.store) <= MaxPairs + 1
        /\ store' = h.store
        /\ last' = Call("hash_pair", <<left, right>>,
                        IF fails THEN Fault("put", 0) ELSE NoFault,
                        Ok([pure |-> hash_pair(left, right), put |-> h.res]))
        /\ UNCHANGED <<peaks, leaf_count, pushed, push_errs, writers, snap, raced, service_vars>>

HashNext == \E left \in OptRefs, right \in OptRefs, fails \in BOOLEAN :
                Test_hash_pair(left, right, fails)

SpecHash == Init /\ [][HashNext]_vars

\* --------------------------------- State::push, statement by statement
\* The body of State::push (lines 280-288) as the steps another thread could
\* observe or interleave with: the load of the Peaks List (280), the call of
\* push on the in-memory AMT (281, right-hand side), the assignment of
\* self.peaks (281), the increment of self.leaf_count (282), and the bagging
\* and return (284-288).  The store serves every access here.
in_flight == Cardinality({w \in Writers : writers[w].pc # "idle"})

\* line 280: let mut amt = Amt::load(&self.peaks, store)?
W_load(w, obj) ==
    LET amt == amt_load(store, peaks)
    IN  /\ writers[w].pc = "idle"
        /\ amt.ok
        /\ writers' = [writers EXCEPT ![w] = [pc |-> "loaded", obj |-> obj,
                                              amt |-> amt.val, handle |-> Cid_default]]
        /\ raced' = (raced \/ in_flight > 0)
        /\ UNCHANGED <<store, peaks, leaf_count, last, pushed, push_errs, snap, service_vars>>

\* a call of push whose result is assigned to self.peaks in the same step
W_push_publishing(w) ==
    LET p == push(store, leaf_count, writers[w].amt, writers[w].obj, NoFault)
    IN  /\ writers[w].pc = "loaded"
        /\ p.res.ok
        /\ store' = p.store
        /\ peaks' = p.res.val
        /\ writers' = [writers EXCEPT ![w].pc = "pushed", ![w].amt = p.peaks,
                                      ![w].handle = p.res.val]
        /\ UNCHANGED <<leaf_count, last, pushed, push_errs, snap, raced, service_vars>>

\* line 281, right-hand side: push(store, self.leaf_count, &mut amt, obj)?
W_push(w) ==
    LET p == push(store, leaf_count, writers[w].amt, writers[w].obj, NoFault)
    IN  /\ writers[w].pc = "loaded"
        /\ store' = p.store
        /\ IF p.res.ok
           THEN /\ writers' = [writers EXCEPT ![w].pc = "pushed", ![w].amt = p.peaks,
                                              ![w].handle = p.res.val]
                /\ UNCHANGED <<last, push_errs>>
           ELSE /\ writers' = [writers EXCEPT ![w] = IdleWriter]
                /\ last' = Call("push", writers[w].obj, NoFault, p.res)
                /\ push_errs' = push_errs + 1
        /\ UNCHANGED <<peaks, leaf_count, pushed, snap, raced, service_vars>>

\* line 281, the assignment: self.peaks = ...
W_assign_peaks(w) ==
    /\ writers[w].pc = "pushed"
    /\ peaks' = writers[w].handle
    /\ writers' = [writers EXCEPT ![w].pc = "assigned"]
    /\ UNCHANGED <<store, leaf_count, last, pushed, push_errs, snap, raced, service_vars>>

\* an increment that counts the leaf twice
W_incr_twice(w) ==
    /\ writers[w].pc = "assigned"
    /\ leaf_count' = leaf_count + 2
    /\ writers' = [writers EXCEPT ![w].pc = "counted"]
    /\ UNCHANGED <<store, peaks, last, pushed, push_errs, snap, raced, service_vars>>

\* line 282: self.leaf_count += 1
W_incr(w) ==
    /\ writers[w].pc = "assigned"
    /\ leaf_count' = leaf_count + 1
    /\ writers' = [writers EXCEPT ![w].pc = "counted"]
    /\ UNCHANGED <<store, peaks, last, pushed, push_errs, snap, raced, service_vars>>

\* lines 284-288: let root = bag_peaks(&amt)?; Ok(PushReturn { root, index })
W_return(w) ==
    LET root == bag_peaks(writers[w].amt, FALSE)
    IN  /\ writers[w].pc = "counted"
        /\ writers' = [writers EXCEPT ![w] = IdleWriter]
        /\ IF root.ok
           THEN /\ last' = Call("push", writers[w].obj, NoFault,
                                Ok(PushReturn(root.val, leaf_count)))
                /\ pushed' = Append(pushed, writers[w].obj)
                /\ UNCHANGED push_errs
           ELSE /\ last' = Call("push", writers[w].obj, NoFault, root)
                /\ push_errs' = push_errs + 1
                /\ UNCHANGED pushed
        /\ UNCHANGED <<store, peaks, leaf_count, snap, raced, service_vars>>

\* a reader copies the two State fields, and notes where the writer stood
Capture ==
    /\ snap' = Some([peaks |-> peaks, leaf_count |-> leaf_count, at |-> writers[1].pc])
    /\ UNCHANGED <<store, peaks, leaf_count, last, pushed, push_errs, writers, raced, service_vars>>

\* One writer and a reader that captures the State at any point of the push.
SnapLoad ==
    \E obj \in Values : leaf_count + push_errs < MaxLeaves /\ W_load(1, obj)
SnapPush == W_push(1)
SnapAssign == W_assign_peaks(1)
SnapIncr == W_incr(1)
SnapReturn == W_return(1)

SnapNext == SnapLoad \/ SnapPush \/ SnapAssign \/ SnapIncr \/ SnapReturn \/ Capture

SpecSnap == Init /\ [][SnapNext]_vars

\* Two callers of push on the same State with no lock between them.
RaceLoad ==
    \E w \in Writers, obj \in Values :
        leaf_count + push_errs + in_flight < MaxLeaves /\ W_load(w, obj)
RacePush == \E w \in Writers : W_push(w)
RaceAssign == \E w \in Writers : W_assign_peaks(w)
RaceIncr == \E w \in Writers : W_incr(w)
RaceReturn == \E w \in Writers : W_return(w)

RaceNext == RaceLoad \/ RacePush \/ RaceAssign \/ RaceIncr \/ RaceReturn

SpecRace == Init /\ [][RaceNext]_vars

\* ------------------------------------------------- a second instance
\* A State value of its own on a store of its own: the State fields, the
\* store it was built on, and what the last call on it returned.
Owners == {100, 101}
WriteAccesses == {"OnlyOwner", "Public"}

\* a constructor whose Peaks List starts with an entry for the creator
State_new_in_owned(st, creator, write_access) ==
    LET f == amt_flush(st, amt_set(EmptyAmt, 0, Cid_new_v1(DAG_CBOR, creator)))
    IN  [owner |-> creator, write_access |-> write_access,
         peaks |-> f.cid, leaf_count |-> 0, store |-> f.store, ret |-> Ok(TRUE)]

\* State::new (lines 245-265) on store st
State_new_in(st, creator, write_access) ==
    LET f == amt_flush(st, EmptyAmt)
    IN  [owner |-> creator, write_access |-> write_access,
         peaks |-> f.cid, leaf_count |-> 0, store |-> f.store, ret |-> Ok(TRUE)]

\* State::push (lines 275-289) on the instance s, the store serving every access
Instance_push(s, obj) ==
    LET amt == amt_load(s.store, s.peaks)
    IN  IF ~amt.ok THEN [s EXCEPT !.ret = amt]
        ELSE LET p == push(s.store, s.leaf_count, amt.val, obj, NoFault)
             IN  IF ~p.res.ok THEN [s EXCEPT !.store = p.store, !.ret = p.res]
                 ELSE LET root == bag_peaks(p.peaks, FALSE)
                      IN  [s EXCEPT !.store = p.store,
                                    !.peaks = p.res.val,
                                    !.leaf_count = s.leaf_count + 1,
                                    !.ret = IF root.ok
                                            THEN Ok(PushReturn(root.val, s.leaf_count + 1))
                                            ELSE root]

\* State::new on st, then the objects of seq pushed in order
RECURSIVE Feed(_, _, _, _)
Feed(st, creator, write_access, seq) ==
    IF seq = <<>> THEN State_new_in(st, creator, write_access)
    ELSE Instance_push(Feed(st, creator, write_access, SubSeq(seq, 1, Len(seq) - 1)),
                       seq[Len(seq)])

\* ------------------------------------- fendermint_rpc: MessageFactory
\* A Message (lines 54-65) keeps the fields the builders set; value and the
\* gas parameters are passed through unchanged and are left out.  sequence
\* is a u64: the runs stay far below 2^64, where += 1 would overflow.
Senders == {"f1"}
SecretKeys == {"sk"}
Destinations == {"f1-other", "f410-contract"}

\* MessageFactory::new (lines 34-36)
MessageFactory_new(addr, sequence) == [addr |-> addr, sequence |-> sequence]

\* a set_sequence that leaves the sequence as it is
set_sequence_keep(f, sequence) == f

\* MessageFactory::set_sequence (lines 43-45)
set_sequence(f, sequence) == [f EXCEPT !.sequence = sequence]

\* MessageFactory::transaction (lines 46-70): the message and the factory after
transaction(f, to, method_num, params) ==
    [msg |-> [from |-> f.addr, to |-> to, sequence |-> f.sequence,
              method_num |-> method_num, params |-> params],
     factory |-> [f EXCEPT !.sequence = f.sequence + 1]]

\* RawBytes::serialize(..)? in front of a builder's call of transaction
serialize(params, fault) == IF fault = "serialize" THEN Err("serialize") ELSE Ok(<<"cbor", params>>)

\* MessageFactory::fevm_create (lines 72-87)
MessageFactory_fevm_create(f, initcode, fault) ==
    LET ser == serialize(initcode, fault)
    IN  IF ~ser.ok THEN [res |-> ser, factory |-> f]
        ELSE LET t == transaction(f, "EAM_ACTOR_ADDR", "CreateExternal", ser.val)
             IN  [res |-> Ok(t.msg), factory |-> t.factory]

\* MessageFactory::fevm_invoke (lines 89-105)
MessageFactory_fevm_invoke(f, contract, calldata, fault) ==
    LET ser == serialize(calldata, fault)
    IN  IF ~ser.ok THEN [res |-> ser, factory |-> f]
        ELSE LET t == transaction(f, contract, "InvokeContract", ser.val)
             IN  [res |-> Ok(t.msg), factory |-> t.factory]

\* MessageFactory::fevm_call (lines 107-120)
MessageFactory_fevm_call(f, contract, calldata, fault) ==
    LET r == MessageFactory_fevm_invoke(f, contract, calldata, fault)
    IN  IF ~r.res.ok THEN r
        ELSE [res |-> r.res, factory |-> set_sequence(r.factory, r.res.val.sequence)]

\* ------------------------------- fendermint_rpc: SignedMessageFactory
\* SignedMessageFactory::new (lines 134-140)
SignedMessageFactory_new(sk, addr, sequence) ==
    [inner |-> MessageFactory_new(addr, sequence), sk |-> sk]

\* SignedMessage::new_secp256k1 (line 192): signs the message, or fails
SignedMessage_new(message, object, sk, fault) ==
    IF fault = "sign" THEN Err("sign")
    ELSE Ok([message |-> message, object |-> object, signature |-> <<sk, message>>])

\* ChainMessage::Signed (line 193) and the match on it (lines 257-261)
ChainMessage_Signed(signed) == <<"Signed", signed>>
into_message(chain) == chain[2].message

\* SignedMessageFactory::transaction (lines 181-195)
SignedMessageFactory_transaction(f, to, method_num, params, object, fault) ==
    LET t == transaction(f.inner, to, method_num, params)
        signed == SignedMessage_new(t.msg, object, f.sk, fault)
        after == [f EXCEPT !.inner = t.factory]
    IN  IF ~signed.ok THEN [res |-> signed, factory |-> after]
        ELSE [res |-> Ok(ChainMessage_Signed(signed.val)), factory |-> after]

\* SignedMessageFactory::transfer (lines 170-178)
transfer(f, to, fault) ==
    SignedMessageFactory_transaction(f, to, "METHOD_SEND", <<>>, None, fault)

\* a builder that serializes its parameters and then calls transaction
serialized_transaction(f, to, method_num, params, object, fault) ==
    LET ser == serialize(params, fault)
    IN  IF ~ser.ok THEN [res |-> ser, factory |-> f]
        ELSE SignedMessageFactory_transaction(f, to, method_num, ser.val, object, fault)

\* SignedMessageFactory::os_put (lines 198-218)
os_put(f, params, fault) ==
    serialized_transaction(f, "OBJECTSTORE_ACTOR_ADDR", "PutObject", params,
        IF params.kind = "External" THEN Some(<<params.key, params.cid>>) ELSE None, fault)

\* SignedMessageFactory::os_delete (lines 221-237)
os_delete(f, params, fault) ==
    serialized_transaction(f, "OBJECTSTORE_ACTOR_ADDR", "DeleteObject", params, None, fault)

\* SignedMessageFactory::acc_push (lines 298-314)
acc_push(f, event, fault) ==
    serialized_transaction(f, "ACCUMULATOR_ACTOR_ADDR", "Push", event, None, fault)

\* SignedMessageFactory::fevm_create (lines 373-391)
fevm_create(f, initcode, fault) ==
    serialized_transaction(f, "EAM_ACTOR_ADDR", "CreateExternal", initcode, None, fault)

\* SignedMessageFactory::fevm_invoke (lines 394-412)
fevm_invoke(f, contract, calldata, fault) ==
    serialized_transaction(f, contract, "InvokeContract", calldata, None, fault)

\* the tail of the read-only builders (lines 257-265): unwrap the signed
\* message and set the sequence back to the one it carries
roll_back(r) ==
    IF ~r.res.ok THEN r
    ELSE LET message == into_message(r.res.val)
         IN  [res |-> Ok(message),
              factory |-> [r.factory EXCEPT
                              !.inner = set_sequence(r.factory.inner, message.sequence)]]

\* SignedMessageFactory::os_get (lines 240-266)
os_get(f, params, fault) ==
    roll_back(serialized_transaction(f, "OBJECTSTORE_ACTOR_ADDR", "GetObject",
                                     params, None, fault))

\* SignedMessageFactory::os_list (lines 269-295)
os_list(f, params, fault) ==
    roll_back(serialized_transaction(f, "OBJECTSTORE_ACTOR_ADDR", "ListObjects",
                                     params, None, fault))

\* SignedMessageFactory::acc_get_at (lines 317-343)
acc_get_at(f, index, fault) ==
    roll_back(serialized_transaction(f, "ACCUMULATOR_ACTOR_ADDR", "Get",
                                     index, None, fault))

\* SignedMessageFactory::acc_root (lines 346-370)
acc_root(f, fault) ==
    roll_back(SignedMessageFactory_transaction(f, "ACCUMULATOR_ACTOR_ADDR", "Root",
                                               <<>>, None, fault))

\* SignedMessageFactory::fevm_call (lines 415-432)
fevm_call(f, contract, calldata, fault) ==
    roll_back(fevm_invoke(f, contract, calldata, fault))

\* The builders by name, on the inputs of a small client: the builders of
\* MessageFactory act on the inner factory.
TxBuilders == {"MessageFactory::transaction", "MessageFactory::fevm_create",
               "MessageFactory::fevm_invoke", "transaction", "transfer", "os_put",
               "os_delete", "acc_push", "fevm_create", "fevm_invoke"}
ReadOnlyBuilders == {"MessageFactory::fevm_call", "fevm_call", "os_get", "os_list",
                     "acc_get_at", "acc_root"}
Unsigned == {"MessageFactory::transaction", "MessageFactory::fevm_create",
             "MessageFactory::fevm_invoke", "MessageFactory::fevm_call"}
Unserialized == {"MessageFactory::transaction", "transaction", "transfer", "acc_root"}
BuilderFaults(op) ==
    {"none"} \cup (IF op \in Unsigned THEN {} ELSE {"sign"})
             \cup (IF op \in Unserialized THEN {} ELSE {"serialize"})

lift(f, r) == [res |-> r.res, factory |-> [f EXCEPT !.inner = r.factory]]

builder(op, f, to, fault) ==
    CASE op = "MessageFactory::transaction" ->
            LET t == transaction(f.inner, to, "METHOD_SEND", <<>>)
            IN  lift(f, [res |-> Ok(t.msg), factory |-> t.factory])
      [] op = "MessageFactory::fevm_create" ->
            lift(f, MessageFactory_fevm_create(f.inner, "initcode", fault))
      [] op = "MessageFactory::fevm_invoke" ->
            lift(f, MessageFactory_fevm_invoke(f.inner, to, "calldata", fault))
      [] op = "MessageFactory::fevm_call" ->
            lift(f, MessageFactory_fevm_call(f.inner, to, "calldata", fault))
      [] op = "transaction" ->
            SignedMessageFactory_transaction(f, to, "METHOD_SEND", <<>>, None, fault)
      [] op = "transfer" -> transfer(f, to, fault)
      [] op = "os_put" ->
            os_put(f, [key |-> "k", kind |-> "External", cid |-> Cid_default], fault)
      [] op = "os_delete" -> os_delete(f, [key |-> "k"], fault)
      [] op = "acc_push" -> acc_push(f, "event", fault)
      [] op = "fevm_create" -> fevm_create(f, "initcode", fault)
      [] op = "fevm_invoke" -> fevm_invoke(f, to, "calldata", fault)
      [] op = "fevm_call" -> fevm_call(f, to, "calldata", fault)
      [] op = "os_get" -> os_get(f, [key |-> "k"], fault)
      [] op = "os_list" -> os_list(f, [prefix |-> "k"], fault)
      [] op = "acc_get_at" -> acc_get_at(f, 0, fault)
      [] op = "acc_root" -> acc_root(f, fault)

\* the Message a builder returned: the builders of transactions on the
\* SignedMessageFactory return it signed
message_of(op, res) ==
    IF op \in TxBuilders \ Unsigned THEN into_message(res.val) ELSE res.val

calls == IF built = None THEN 0 ELSE built[1].n

\* a client constructs its factory with the sequence of its account
Factory_new(sk, addr, sequence) ==
    /\ factory = None
    /\ factory' = Some(SignedMessageFactory_new(sk, addr, sequence))
    /\ UNCHANGED <<built, yielded, state_vars, proxy_vars, resolver_vars>>

\* a call of a builder: the call, its result and the factory it leaves
Build(op, to, fault) ==
    /\ factory # None
    /\ calls < MaxCalls
    /\ LET f == factory[1]
           r == builder(op, f, to, fault)
       IN  /\ factory' = Some(r.factory)
           /\ built' = Some([op |-> op, fault |-> fault, res |-> r.res,
                             before |-> f.inner.sequence, n |-> calls + 1,
                             prev |-> IF built = None THEN None
                                      ELSE Some([op |-> built[1].op,
                                                 res |-> built[1].res])])
           /\ yielded' = IF op \in TxBuilders /\ r.res.ok
                         THEN Append(yielded, message_of(op, r.res).sequence)
                         ELSE yielded
    /\ UNCHANGED <<state_vars, proxy_vars, resolver_vars>>

FactoryNew == \E sk \in SecretKeys, addr \in Senders, sequence \in 0 .. MaxStartSequence :
                  Factory_new(sk, addr, sequence)
BuildTransaction == \E op \in TxBuilders, to \in Destinations :
                        \E fault \in BuilderFaults(op) : Build(op, to, fault)
BuildCall == \E op \in ReadOnlyBuilders, to \in Destinations :
                 \E fault \in BuilderFaults(op) : Build(op, to, fault)

FactoryNext == FactoryNew \/ BuildTransaction \/ BuildCall

SpecFactory == Init /\ [][FactoryNext]_vars

\* -------------------------------------------- fendermint_app: proxy
\* The three mutating handlers (lines 139-180, 241-262) have one body: lock
\* the nonce, copy it into args.sequence, await the broadcast, and on Ok
\* increment the nonce before the guard is dropped at the return.  A handler
\* is modelled from await to await; the nonce is a u64 and the runs stay far
\* below 2^64.
Routes == {"handle_os_add", "handle_os_delete", "handle_acc_push"}

requests_taken == Len(broadcasts) + Cardinality({h \in Requests : handlers[h].pc # "idle"})

\* ProxyCommands::Start (lines 35-37): let seq = args.sequence;
\* let nonce = Arc::new(Mutex::new(seq))
Proxy_start(seq) ==
    /\ nonce = None
    /\ nonce' = Some([seq |-> seq, value |-> seq])
    /\ UNCHANGED <<nonce_lck, handlers, broadcasts, state_vars, factory_vars, resolver_vars>>

\* a request is routed to its handler, which calls nonce.lock() (line 147)
H_request(h, route) ==
    /\ nonce # None
    /\ handlers[h].pc = "idle"
    /\ requests_taken < MaxRequests
    /\ handlers' = [handlers EXCEPT ![h] = [pc |-> "lock", route |-> route, sequence |-> 0]]
    /\ UNCHANGED <<nonce, nonce_lck, broadcasts, state_vars, factory_vars, resolver_vars>>

\* a handler that copies the nonce and lets the guard go before it broadcasts
H_lock_released(h) ==
    /\ handlers[h].pc = "lock"
    /\ nonce_lck = None
    /\ handlers' = [handlers EXCEPT ![h].pc = "broadcast", ![h].sequence = nonce[1].value]
    /\ UNCHANGED <<nonce, nonce_lck, broadcasts, state_vars, factory_vars, resolver_vars>>

\* lines 147-151: the lock is granted, args.sequence = *nonce_lck, and the
\* broadcast is started with the guard held
H_lock(h) ==
    /\ handlers[h].pc = "lock"
    /\ nonce_lck = None
    /\ nonce_lck' = Some(h)
    /\ handlers' = [handlers EXCEPT ![h].pc = "broadcast", ![h].sequence = nonce[1].value]
    /\ UNCHANGED <<nonce, broadcasts, state_vars, factory_vars, resolver_vars>>

\* lines 151-158: the broadcast completes; Err returns through the ?, Ok
\* does *nonce_lck += 1; either way the guard is dropped at the return
H_reply(h, ok) ==
    /\ handlers[h].pc = "broadcast"
    /\ nonce' = IF ok THEN Some([nonce[1] EXCEPT !.value = nonce[1].value + 1]) ELSE nonce
    /\ nonce_lck' = None
    /\ broadcasts' = Append(broadcasts, [route |-> handlers[h].route,
                                         sequence |-> handlers[h].sequence, ok |-> ok])
    /\ handlers' = [handlers EXCEPT ![h] = IdleHandler]
    /\ UNCHANGED <<state_vars, factory_vars, resolver_vars>>

ProxyStart == \E seq \in 0 .. MaxStartNonce : Proxy_start(seq)
HRequest == \E h \in Requests, route \in Routes : H_request(h, route)
HLock == \E h \in Requests : H_lock(h)
HReply == \E h \in Requests, ok \in BOOLEAN : H_reply(h, ok)

ProxyNext == ProxyStart \/ HRequest \/ HLock \/ HReply

SpecProxy == Init /\ [][ProxyNext]_vars

\* --------------------------------------------- the IPFS resolver
\* IpfsResolver::run takes tasks from the queue and spawns start_resolve for
\* each; the spawned future is modelled from await to await.  A task's pc:
\* "new" (not yet in the pool), "queued", "resolving" (awaiting
\* client.resolve_ipfs), "dropped" (the submission failed), "sleeping" (in
\* schedule_retry), "resolved" (about to call set_resolved), "voting" (about
\* to add its vote), "done".  slept counts the time a sleeping task has waited.
ResolveOutcomes == {"submit_err", "resolve_err", "ok"}
VoteOutcomes == {"sign_err", "added", "present", "tally_err"}

in_queue(t) == \E i \in 1 .. Len(queue) : queue[i] = t

\* transaction processing adds a task to the pool's queue (lines 163-164)
Pool_add(t) ==
    /\ tasks[t].pc = "new"
    /\ queue' = Append(queue, t)
    /\ tasks' = [tasks EXCEPT ![t].pc = "queued"]
    /\ UNCHANGED <<published, state_vars, factory_vars, proxy_vars>>

\* IpfsResolver::run (lines 55-74): read the next task, spawn start_resolve
IpfsResolver_run ==
    /\ queue # <<>>
    /\ queue' = Tail(queue)
    /\ tasks' = [tasks EXCEPT ![Head(queue)].pc = "resolving"]
    /\ UNCHANGED <<published, state_vars, factory_vars, proxy_vars>>

\* a resolution error after which the task is given up
start_resolve_forget(t, res) ==
    /\ tasks[t].pc = "resolving"
    /\ tasks' = [tasks EXCEPT ![t].pc = CASE res = "submit_err" -> "dropped"
                                          [] res = "resolve_err" -> "done"
                                          [] res = "ok" -> "resolved"]
    /\ UNCHANGED <<queue, published, state_vars, factory_vars, proxy_vars>>

\* start_resolve, lines 94-111 and 149-156: the result of resolve_ipfs;
\* Err returns, Ok(Err(e)) calls schedule_retry, Ok(Ok(())) goes on
start_resolve(t, res) ==
    /\ tasks[t].pc = "resolving"
    /\ tasks' = [tasks EXCEPT ![t].pc = CASE res = "submit_err" -> "dropped"
                                          [] res = "resolve_err" -> "sleeping"
                                          [] res = "ok" -> "resolved",
                              ![t].slept = 0]
    /\ UNCHANGED <<queue, published, state_vars, factory_vars, proxy_vars>>

\* schedule_retry, line 173: time passes for the sleeping task
sleep(t) ==
    /\ tasks[t].pc = "sleeping"
    /\ tasks[t].slept < RetryDelay
    /\ tasks' = [tasks EXCEPT ![t].slept = tasks[t].slept + 1]
    /\ UNCHANGED <<queue, published, state_vars, factory_vars, proxy_vars>>

\* schedule_retry, lines 174-175: the sleep is over, the task is written back
schedule_retry(t) ==
    /\ tasks[t].pc = "sleeping"
    /\ tasks[t].slept >= RetryDelay
    /\ queue' = Append(queue, t)
    /\ tasks' = [tasks EXCEPT ![t].pc = "queued", ![t].retried = TRUE]
    /\ UNCHANGED <<published, state_vars, factory_vars, proxy_vars>>

\* start_resolve, line 115: atomically(|| task.set_resolved())
set_resolved(t) ==
    /\ tasks[t].pc = "resolved"
    /\ tasks' = [tasks EXCEPT ![t].pc = "voting", ![t].is_resolved = TRUE]
    /\ UNCHANGED <<queue, published, state_vars, factory_vars, proxy_vars>>

\* start_resolve, lines 117-147: sign the vote, add it to the tally, and
\* hand it to publish_vote if the tally reported it as added
add_object_vote(t, res) ==
    /\ tasks[t].pc = "voting"
    /\ tasks' = [tasks EXCEPT ![t].pc = "done", ![t].vote = res]
    /\ published' = IF res = "added" THEN Append(published, t) ELSE published
    /\ UNCHANGED <<queue, state_vars, factory_vars, proxy_vars>>

PoolAdd == \E t \in Tasks : Pool_add(t)
Run == IpfsResolver_run
Resolve == \E t \in Tasks, res \in ResolveOutcomes : start_resolve(t, res)
Sleep == \E t \in Tasks : sleep(t)
Retry == \E t \in Tasks : schedule_retry(t)
SetResolved == \E t \in Tasks : set_resolved(t)
Vote == \E t \in Tasks, res \in VoteOutcomes : add_object_vote(t, res)

ResolverNext == PoolAdd \/ Run \/ Resolve \/ Sleep \/ Retry \/ SetResolved \/ Vote

SpecResolver == Init /\ [][ResolverNext]_vars

\* The tokio runtime drives the run loop, every spawned future and every
\* timer (weak fairness of each step), and a resolution that is tried again
\* and again succeeds in the end (strong fairness of the Ok outcome).
ResolverFairness ==
    /\ WF_vars(Run)
    /\ \A t \in Tasks :
          /\ WF_vars(\E res \in ResolveOutcomes : start_resolve(t, res))
          /\ SF_vars(start_resolve(t, "ok"))
          /\ WF_vars(sleep(t))
          /\ WF_vars(schedule_retry(t))
          /\ WF_vars(set_resolved(t))
          /\ WF_vars(\E res \in VoteOutcomes : add_object_vote(t, res))

SpecResolverFair == Init /\ [][ResolverNext]_vars /\ ResolverFairness

\* ------------------------------------------------------------ claims
\* the number of set bits of n, counted position by position
PopCount(n) == Cardinality({i \in 0 .. bit_len(n) : bit(n, i) = 1})

\* C1: after n successful pushes from State::new (and no failed one),
\* leaf_count = n, get_peaks returns popcount(n) peaks and peak_count() is
\* that length; 3 peaks after 11 pushes, 5 after 31.
C1_CountsAfterPushes ==
    push_errs = 0 =>
        LET pk == get_peaks(store, peaks, NoFault)
        IN  /\ leaf_count = Len(pushed)
            /\ pk.ok
            /\ Len(pk.val) = PopCount(Len(pushed))
            /\ peak_count = Len(pk.val)
            /\ (Len(pushed) = 11 => peak_count = 3)
            /\ (Len(pushed) = 31 => peak_count = 5)

C1_Witness ==
    /\ push_errs = 0
    /\ Len(pushed) = 31
    /\ last.op = "get_peaks"
    /\ last.res.ok
    /\ Len(last.res.val) = 5

\* C2: after n successful pushes of v_0..v_{n-1}, get_leaf_at(i) returns
\* Some(v_i) for every i < n, the last pushed leaf included.
C2_LeafAtReturnsPushed ==
    (/\ last.op = "get_leaf_at"
     /\ last.fault = NoFault
     /\ push_errs = 0
     /\ last.arg < Len(pushed))
        => /\ last.res.ok
           /\ is_some(last.res.val)
           /\ unwrap(last.res.val) = pushed[last.arg + 1]

C2_Witness ==
    /\ last.op = "get_leaf_at"
    /\ push_errs = 0
    /\ Len(pushed) = 31
    /\ last.arg = 5
    /\ last.res.ok
    /\ last.res.val = Some(pushed[6])

\* C3: a successful push returns the leaf_count of before the call, which is
\* the new leaf_count - 1; while no push has failed the indices returned are
\* 0, 1, 2, ... in order.
C3_PushIndex ==
    (last.op = "push" /\ last.res.ok)
        => /\ last.res.val.index = last.before[2]
           /\ last.res.val.index = leaf_count - 1
           /\ (push_errs = 0 => last.res.val.index = Len(pushed) - 1)

C3_Witness ==
    /\ last.op = "push"
    /\ last.res.ok
    /\ last.res.val.index = 2
    /\ Len(pushed) = 3

\* C4: the root returned by a successful push is the root get_root computes
\* right after it from the Peaks List reloaded from state.peaks.
C4_PushRootIsGetRoot ==
    (last.op = "push" /\ last.res.ok)
        => LET r == get_root(store, peaks, NoFault)
           IN  r.ok /\ r.val = last.res.val.root

C4_Witness ==
    /\ last.op = "push"
    /\ last.res.ok
    /\ leaf_count = 11
    /\ get_root(store, peaks, NoFault) = Ok(last.res.val.root)

\* C5: push is all-or-nothing: when it returns Err the State (peaks handle
\* and leaf_count) is the State of before the call, when it returns Ok the
\* State has advanced by one leaf.
C5_PushAllOrNothing ==
    last.op = "push" =>
        IF last.res.ok
        THEN leaf_count = last.before[2] + 1
        ELSE <<peaks, leaf_count>> = last.before

\* C6: a store failure in the merge loop of a push leaves the committed
\* handle and leaf_count untouched and get_root, get_peaks and get_leaf_at(i),
\* i < leaf_count, return what they returned before; the handle changes only
\* in a push that got past all its merges and flushed.
C6_MergeFailureLeavesState ==
    [][/\ (last'.op = "push" /\ last'.fault.at = "merge")
            => /\ ~last'.res.ok
               /\ peaks' = peaks
               /\ leaf_count' = leaf_count
               /\ get_root(store', peaks', NoFault) = get_root(store, peaks, NoFault)
               /\ get_peaks(store', peaks', NoFault) = get_peaks(store, peaks, NoFault)
               /\ \A i \in 0 .. MaxLeaves :
                      i < leaf_count =>
                          get_leaf_at(store', peaks', leaf_count', i, NoFault)
                              = get_leaf_at(store, peaks, leaf_count, i, NoFault)
       /\ (peaks' # peaks)
            => /\ last'.op = "push"
               /\ last'.fault.at \in {"none", "bag"}
               /\ leaf_count' = leaf_count + 1
               /\ peaks' = put_cbor_cid(to_vec_amt(amt_load(store', peaks').val))
      ]_vars

C6_Witness ==
    /\ last.op = "push"
    /\ last.fault = Fault("merge", 2)
    /\ ~last.res.ok
    /\ leaf_count = 3
    /\ <<peaks, leaf_count>> = last.before
    /\ LET pk == get_peaks(store, peaks, NoFault).val
           leaf == put_cbor_cid(to_vec_obj(last.arg))
       IN  /\ store_has(store, leaf)
           /\ store_has(store, hash_pair(Some(pk[2]), Some(leaf)).val)

\* C7: leaf_count never decreases and a block of the store stays in the store
\* with its content, whatever the operation and whether it fails.
C7_MonotonicGrowth ==
    [][/\ leaf_count' >= leaf_count
       /\ \A c \in DOMAIN store : store_has(store', c) /\ store'[c] = store[c]
      ]_vars

C7_Witness ==
    /\ push_errs > 0
    /\ Len(pushed) = 2
    /\ leaf_count = 3
    /\ last.op = "get_leaf_at"
    /\ last.res = Ok(None)

\* C8: get_root of the empty accumulator is Cid::default(), which no
\* non-empty accumulator has as its root; after one push get_root is
\* get_peaks()[0], the reference of the leaf itself.
C8_EmptyAndSingleRoot ==
    (last.op = "get_root" /\ last.fault = NoFault)
        => /\ last.res.ok
           /\ (leaf_count = 0 <=> last.res.val = Cid_default)
           /\ leaf_count = 1 =>
                LET pk == get_peaks(store, peaks, NoFault)
                IN  /\ pk.ok
                    /\ last.res.val = pk.val[1]
                    /\ is_obj_block(store[last.res.val])
                    /\ (push_errs = 0 =>
                            last.res.val = put_cbor_cid(to_vec_obj(pushed[1])))

C8_Witness ==
    /\ last.op = "get_root"
    /\ last.fault = NoFault
    /\ leaf_count = 1
    /\ last.res.ok
    /\ last.res.val = get_peaks(store, peaks, NoFault).val[1]

\* C9: for present references l and r, hash_pair and a successful
\* hash_and_put_pair return the same reference, whatever the store holds
\* (the same reference as on an empty store).
C9_HashPairIsPutPair ==
    (last.op = "hash_pair" /\ is_some(last.arg[1]) /\ is_some(last.arg[2]))
        => LET pure == last.res.val.pure
               put == last.res.val.put
           IN  /\ pure.ok
               /\ put.ok <=> last.fault = NoFault
               /\ put.ok => put.val = pure.val
               /\ pure = hash_and_put_pair(<<>>, last.arg[1], last.arg[2], FALSE).res
               /\ pure = hash_pair(last.arg[1], last.arg[2])

C9_Witness ==
    /\ last.op = "hash_pair"
    /\ is_some(last.arg[1])
    /\ is_some(last.arg[2])
    /\ last.arg[1] # last.arg[2]
    /\ last.res.val.put.ok
    /\ last.res.val.put.val = last.res.val.pure.val
    /\ store_has(store, last.res.val.put.val)

\* C10: get_leaf_at(i) with i >= leaf_count, on a store that serves the peaks
\* handle, returns Ok(None) and leaves the State as it was.
C10_OutOfRangeIsAbsent ==
    (last.op = "get_leaf_at" /\ last.arg >= leaf_count /\ last.fault = NoFault)
        => /\ last.res.ok
           /\ last.res.val = None
           /\ <<peaks, leaf_count>> = last.before

C10_Witness ==
    /\ last.op = "get_leaf_at"
    /\ last.fault = NoFault
    /\ leaf_count = 3
    /\ last.arg = 3
    /\ last.res = Ok(None)

\* C11: get_leaf_at downgrades every failure to an absent result: whatever
\* the index and whatever the store does (index out of range, peaks handle
\* that cannot be loaded, missing peak, missing or malformed node on the
\* walk, store error), State::get_leaf_at returns Ok(None), never Err.
C11_LeafAtNeverErr ==
    last.op = "get_leaf_at" =>
        /\ last.res.ok
        /\ (last.fault # NoFault \/ last.arg >= last.before[2]) => last.res.val = None

\* C12: two accumulators built independently with State::new, on separate
\* stores or on the same one, and fed the same sequence of leaves agree after
\* every prefix on leaf_count, on the root and index every push returns, on
\* get_root, on the get_peaks list and on the peaks handle, whoever owns them
\* and whatever failed pushes left in the store of one of them.
C12_Agree(b) ==
    /\ b.leaf_count = leaf_count
    /\ b.peaks = peaks
    /\ get_root(b.store, b.peaks, NoFault) = get_root(store, peaks, NoFault)
    /\ get_peaks(b.store, b.peaks, NoFault) = get_peaks(store, peaks, NoFault)
    /\ (last.op = "push" /\ last.res.ok) => b.ret = last.res

C12_CrossInstanceDeterminism ==
    leaf_count = Len(pushed) =>
        \A creator \in Owners, write_access \in WriteAccesses :
            /\ C12_Agree(Feed(<<>>, creator, write_access, pushed))
            /\ C12_Agree(Feed(store, creator, write_access, pushed))

C12_Witness ==
    /\ leaf_count = 3
    /\ Len(pushed) = 3
    /\ push_errs = 1
    /\ last.op = "push"
    /\ last.res.ok
    /\ LET b == Feed(<<>>, 100, "OnlyOwner", pushed)
       IN  /\ b.ret = last.res
           /\ Cardinality(DOMAIN b.store) < Cardinality(DOMAIN store)

\* the pair nodes of the k merges of a push: the peaks taken from the right,
\* each hashed with what has been merged so far, the new leaf first
RECURSIVE C13_MergePairs(_, _, _)
C13_MergePairs(pk, acc, k) ==
    IF k = 0 \/ pk = <<>> THEN {}
    ELSE LET node == hash_pair(Some(pk[Len(pk)]), Some(acc)).val
         IN  {node} \cup C13_MergePairs(SubSeq(pk, 1, Len(pk) - 1), node, k - 1)

\* the number of one bits below the lowest zero bit of c
RECURSIVE TrailingOnes(_)
TrailingOnes(c) == IF c % 2 = 0 THEN 0 ELSE 1 + TrailingOnes(c \div 2)

\* C13: bagging writes nothing. get_root adds no block to the store; a push
\* adds exactly the leaf, one pair node per merge and the flushed Peaks List,
\* so the root computed at its end adds none; and the bagged root of an
\* accumulator of two peaks or more is not a block of the store.
C13_BaggingWritesNothing ==
    [][/\ (leaf_count' = leaf_count) => store' = store
       /\ (leaf_count' = leaf_count + 1) =>
            LET leaf == put_cbor_cid(to_vec_obj(last'.arg))
                pk == get_peaks(store, peaks, NoFault).val
                root == get_root(store', peaks', NoFault)
            IN  /\ DOMAIN store' =
                       DOMAIN store \cup {leaf, peaks'}
                           \cup C13_MergePairs(pk, leaf, TrailingOnes(leaf_count))
                /\ root.ok
                /\ last'.res.val.root = root.val
                /\ count_ones(leaf_count') >= 2 => ~store_has(store', root.val)
      ]_vars

C13_Witness ==
    /\ leaf_count = 7
    /\ last.op = "get_root"
    /\ last.res.ok
    /\ Len(get_peaks(store, peaks, NoFault).val) = 3
    /\ ~store_has(store, last.res.val)
    /\ Cardinality(DOMAIN store) = 7 + 4 + 8

\* the leaves the State counts, in order: those of the pushes that returned
\* and the one of the push that has incremented leaf_count and not yet returned
C14_Leaves ==
    IF writers[1].pc = "counted" THEN Append(pushed, writers[1].obj) ELSE pushed

\* a captured (peaks, leaf_count) reads as the accumulator of leaf_count leaves
C14_Consistent(sn) ==
    LET m == sn.leaf_count
        pk == get_peaks(store, sn.peaks, NoFault)
        ref == Feed(<<>>, 100, "OnlyOwner", SubSeq(C14_Leaves, 1, m))
    IN  /\ m <= Len(C14_Leaves)
        /\ pk.ok
        /\ Len(pk.val) = PopCount(m)
        /\ get_root(store, sn.peaks, NoFault) = get_root(ref.store, ref.peaks, NoFault)
        /\ \A i \in 0 .. m - 1 :
               get_leaf_at(store, sn.peaks, m, i, NoFault) = Ok(Some(C14_Leaves[i + 1]))

C15_SnapshotStable ==
    \A m \in 0 .. Len(pushed) :
        LET at_m == Feed(<<>>, 100, "OnlyOwner", SubSeq(pushed, 1, m))
            amt == amt_load(store, at_m.peaks)
        IN  /\ amt.ok
            /\ \A i \in 0 .. m - 1 :
                   get_at(store, i, m, amt.val, NoFault) = Ok(pushed[i + 1])
            /\ m >= 1 => Ok(PushReturn(bag_peaks(amt.val, FALSE).val, m)) = at_m.ret

C15_Witness ==
    /\ Len(pushed) = 31
    /\ leaf_count = 31
    /\ LET at_m == Feed(<<>>, 100, "OnlyOwner", SubSeq(pushed, 1, 21))
           amt == amt_load(store, at_m.peaks)
       IN  /\ at_m.peaks # peaks
           /\ amt_count(amt.val) = 3
           /\ get_at(store, 20, 21, amt.val, NoFault) = Ok(20)
           /\ get_at(store, 20, 31, amt_load(store, peaks).val, NoFault) = Ok(20)

\* C16: hash_and_put_pair round-trips. After it returns c for (l, r), reading
\* c from the store and decoding it as a pair node gives [l, r] in that
\* order; putting the same pair again returns the same c and leaves the
\* store as it is.
C16_PutPairRoundTrip ==
    (last.op = "hash_pair" /\ last.res.val.put.ok) =>
        LET c == last.res.val.put.val
            again == hash_and_put_pair(store, last.arg[1], last.arg[2], FALSE)
        IN  /\ get_cbor_pair(store, c) = Ok(Some(<<unwrap(last.arg[1]), unwrap(last.arg[2])>>))
            /\ again.res = Ok(c)
            /\ again.store = store

C16_Witness ==
    /\ last.op = "hash_pair"
    /\ last.res.val.put.ok
    /\ last.arg[1] # last.arg[2]
    /\ is_pair_block(store[last.res.val.put.val])
    /\ get_cbor_pair(store, last.res.val.put.val).val = Some(<<unwrap(last.arg[1]), unwrap(last.arg[2])>>)

\* C17: State::new yields the empty accumulator: leaf_count is 0, peak_count()
\* is 0, get_peaks is the empty list, and the peaks handle is one fixed
\* reference for every construction, whoever the owner, whatever the write
\* access and whatever the store already holds.
C17_NewIsEmpty ==
    \A creator \in Owners, write_access \in WriteAccesses :
        LET s == State_new_in(store, creator, write_access)
        IN  /\ s.leaf_count = 0
            /\ count_ones(s.leaf_count) = 0
            /\ get_peaks(s.store, s.peaks, NoFault) = Ok(<<>>)
            /\ s.peaks = State_new.peaks
            /\ s.owner = creator
            /\ s.write_access = write_access

C17_Witness ==
    /\ leaf_count = 3
    /\ push_errs = 1
    /\ peaks # State_new.peaks
    /\ LET s == State_new_in(store, 101, "Public")
       IN  /\ s.peaks = State_new.peaks
           /\ s.store = store
           /\ get_peaks(s.store, s.peaks, NoFault) = Ok(<<>>)

\* every leaf a returned push added is there, and the peaks match the count
C18_Intact ==
    LET pk == get_peaks(store, peaks, NoFault)
    IN  /\ leaf_count = Len(pushed)
        /\ pk.ok
        /\ Len(pk.val) = PopCount(leaf_count)
        /\ \A i \in 0 .. Len(pushed) - 1 :
               get_leaf_at(store, peaks, leaf_count, i, NoFault) = Ok(Some(pushed[i + 1]))

\* C18: push is not synchronized internally. When the reads and writes of two
\* pushes on one State interleave (both load the handle before either
\* publishes) a state is reachable where a pushed leaf is lost or the number
\* of peaks is not popcount(leaf_count); when the pushes are serialized (none
\* starts while another is in progress) no such state is reachable.
C18_SerializedPushesIntact ==
    (~raced /\ in_flight = 0 /\ push_errs = 0) => C18_Intact

C18_Witness ==
    /\ raced
    /\ in_flight = 0
    /\ push_errs = 0
    /\ Len(pushed) = 3
    /\ leaf_count = 3
    /\ Len(get_peaks(store, peaks, NoFault).val) # PopCount(leaf_count)
    /\ \E i \in 0 .. 2 : get_leaf_at(store, peaks, leaf_count, i, NoFault) = Ok(None)

\* the positions of the set bits of n from position h down, highest first
RECURSIVE C19_Heights(_, _)
C19_Heights(n, h) ==
    IF h < 0 THEN <<>>
    ELSE (IF bit(n, h) = 1 THEN <<h>> ELSE <<>>) \o C19_Heights(n, h - 1)

\* the leaf values under cid read left to right, cid being the root of a
\* perfect tree of height h: pair nodes down to depth h, leaves at depth h;
\* -1 stands for a block that is missing or of the other kind
RECURSIVE C19_LeavesUnder(_, _, _)
C19_LeavesUnder(st, cid, h) ==
    IF h = 0
    THEN LET leaf == get_cbor_obj(st, cid)
         IN  IF leaf.ok /\ is_some(leaf.val) THEN <<unwrap(leaf.val)>> ELSE <<-1>>
    ELSE LET node == get_cbor_pair(st, cid)
         IN  IF node.ok /\ is_some(node.val)
             THEN C19_LeavesUnder(st, unwrap(node.val)[1], h - 1)
                      \o C19_LeavesUnder(st, unwrap(node.val)[2], h - 1)
             ELSE <<-1>>

RECURSIVE C19_LeavesOfPeaks(_, _, _)
C19_LeavesOfPeaks(st, pk, hs) ==
    IF pk = <<>> \/ hs = <<>> THEN <<>>
    ELSE C19_LeavesUnder(st, Head(pk), Head(hs)) \o C19_LeavesOfPeaks(st, Tail(pk), Tail(hs))

\* C19: the shape of the Peaks List. For leaf_count = n the list holds one
\* peak per set bit of n, tallest first: the j-th entry is the root of a
\* perfect binary tree whose height is the position of the j-th most
\* significant set bit of n, and the leaves under the peaks, read left to
\* right, are the pushed leaves in the order they were pushed.
C19_PeaksShape ==
    LET pk == get_peaks(store, peaks, NoFault)
        hs == C19_Heights(leaf_count, bit_len(leaf_count))
    IN  /\ pk.ok
        /\ Len(pk.val) = Len(hs)
        /\ C19_LeavesOfPeaks(store, pk.val, hs) = pushed

C19_Witness ==
    /\ leaf_count = 22
    /\ C19_Heights(leaf_count, bit_len(leaf_count)) = <<4, 2, 1>>
    /\ LET pk == get_peaks(store, peaks, NoFault).val
       IN  /\ Len(pk) = 3
           /\ C19_LeavesUnder(store, pk[2], 2) = <<16, 17, 18, 19>>
           /\ C19_LeavesUnder(store, pk[3], 1) = <<20, 21>>

\* C20: a push onto an accumulator of c leaves performs exactly k merges, k
\* the number of trailing one bits of c (the trailing zeros of NOT c over
\* u64): it writes exactly k pair nodes and leaves the Peaks List with
\* popcount(c) + 1 - k = popcount(c + 1) entries; when c is even there is no
\* merge and the new leaf is the last peak.
C20_MergesPerPush ==
    [][(leaf_count' = leaf_count + 1) =>
            LET c == leaf_count
                k == TrailingOnes(c)
                pairs == {x \in DOMAIN store' \ DOMAIN store : is_pair_block(store'[x])}
                before == get_peaks(store, peaks, NoFault).val
                after == get_peaks(store', peaks', NoFault).val
            IN  /\ k = not_trailing_zeros(c)
                /\ Cardinality(pairs) = k
                /\ Len(before) = PopCount(c)
                /\ Len(after) = PopCount(c) + 1 - k
                /\ Len(after) = PopCount(c + 1)
                /\ SubSeq(after, 1, Len(after) - 1) = SubSeq(before, 1, Len(before) - k)
                /\ (c % 2 = 0) =>
                       /\ pairs = {}
                       /\ after = Append(before, put_cbor_cid(to_vec_obj(last'.arg)))
      ]_vars

C20_Witness ==
    /\ last.op = "push"
    /\ last.before[2] = 15
    /\ leaf_count = 16
    /\ TrailingOnes(15) = 4
    /\ Len(get_peaks(store, peaks, NoFault).val) = 1
    /\ Cardinality({x \in DOMAIN store : is_pair_block(store[x])}) = 15

\* the right spine of a merged peak of height h: at each level the left child
\* is the former peak popped at that merge and both children are perfect
\* trees one level lower; at the bottom sits the new leaf
RECURSIVE C21_Spine(_, _, _, _, _)
C21_Spine(st, node, before, leaf, h) ==
    IF h = 0 THEN node = leaf
    ELSE LET pair == get_cbor_pair(st, node)
         IN  /\ pair.ok
             /\ is_some(pair.val)
             /\ unwrap(pair.val)[1] = before[Len(before) - h + 1]
             /\ Len(C19_LeavesUnder(st, unwrap(pair.val)[1], h - 1)) = 2 ^ (h - 1)
             /\ Len(C19_LeavesUnder(st, unwrap(pair.val)[2], h - 1)) = 2 ^ (h - 1)
             /\ C21_Spine(st, unwrap(pair.val)[2], before, leaf, h - 1)

\* C21: every merge of a push combines two peaks of equal height into one
\* peak one level taller, the subtree inserted earlier as the left child and
\* the one inserted later as the right child (the peaks are popped right then
\* left, the pair node stored is [left, right]).
C21_MergeEqualHeights ==
    [][(leaf_count' = leaf_count + 1) =>
            LET k == TrailingOnes(leaf_count)
                before == get_peaks(store, peaks, NoFault).val
                after == get_peaks(store', peaks', NoFault).val
                top == after[Len(after)]
                under == C19_LeavesUnder(store', top, k)
            IN  /\ C21_Spine(store', top, before, put_cbor_cid(to_vec_obj(last'.arg)), k)
                /\ Len(under) = 2 ^ k
                /\ \A j \in 1 .. Len(under) : under[j] = pushed'[leaf_count' - 2 ^ k + j]
      ]_vars

C21_Witness ==
    /\ last.op = "push"
    /\ last.before[2] = 7
    /\ leaf_count = 8
    /\ LET pk == get_peaks(store, peaks, NoFault).val
           top == unwrap(get_cbor_pair(store, pk[1]).val)
       IN  /\ Len(pk) = 1
           /\ C19_LeavesUnder(store, top[1], 2) = <<0, 1, 2, 3>>
           /\ C19_LeavesUnder(store, top[2], 2) = <<4, 5, 6, 7>>

\* H(p_1, H(p_2, ... H(p_{n-1}, p_n) ...)) for a list of one peak or more
RECURSIVE C22_FoldRight(_)
C22_FoldRight(p) ==
    IF Len(p) = 1 THEN p[1]
    ELSE hash_pair(Some(p[1]), Some(C22_FoldRight(Tail(p)))).val

\* the arguments of the nested pairs of a root over n peaks, outermost first
\* (a reference carries the block it is the hash of)
RECURSIVE C22_Unfold(_, _)
C22_Unfold(root, n) ==
    IF n = 1 THEN <<root>>
    ELSE <<root[2][2][2][1]>> \o C22_Unfold(root[2][2][2][2], n - 1)

\* C22: for a Peaks List p_0..p_{n-1} of two peaks or more, bag_peaks returns
\* the right-to-left fold H(p_0, H(p_1, ... H(p_{n-2}, p_{n-1}) ...)) with H =
\* hash_pair: it starts from the two shortest peaks, each taller peak is the
\* left argument and the accumulated value the right one, and every peak is
\* used exactly once.
C22_BagIsRightFold ==
    LET amt == amt_load(store, peaks).val
        pk == get_peaks(store, peaks, NoFault).val
        root == bag_peaks(amt, FALSE)
    IN  Len(pk) >= 2 =>
            /\ root = Ok(C22_FoldRight(pk))
            /\ C22_Unfold(root.val, Len(pk)) = pk
            /\ get_root(store, peaks, NoFault) = root

C22_Witness ==
    /\ leaf_count = 23
    /\ last.op = "get_root"
    /\ LET pk == get_peaks(store, peaks, NoFault).val
       IN  /\ Len(pk) = 4
           /\ last.res = hash_pair(Some(pk[1]),
                   Some(hash_pair(Some(pk[2]),
                                  Some(hash_pair(Some(pk[3]), Some(pk[4])).val)).val))

\* the peak whose index range holds leaf i, the peaks having heights hs from
\* the tallest: <<position from 0, height, offset of i inside the peak>>
RECURSIVE C23_Locate(_, _, _, _)
C23_Locate(i, hs, j, start) ==
    IF j = Len(hs) \/ i < start + 2 ^ hs[j] THEN <<j - 1, hs[j], i - start>>
    ELSE C23_Locate(i, hs, j + 1, start + 2 ^ hs[j])

RECURSIVE C23_BitOr(_, _)
C23_BitOr(x, y) ==
    IF x = 0 /\ y = 0 THEN 0
    ELSE (IF (x % 2) + (y % 2) > 0 THEN 1 ELSE 0) + 2 * C23_BitOr(x \div 2, y \div 2)

\* C23: for every leaf_count n >= 1 and leaf_index i < n the resolver returns
\* (local_path, peak_index) where peak_index is the position, tallest first,
\* of the one peak whose index range holds i, and local_path = 2^height +
\* (offset of i inside that peak), 2^height being the peak's leaf capacity;
\* the sum local_offset + merge_height of the code is the bitwise OR
\* local_offset | size.
C23_ResolverLocatesPeak ==
    \A i \in 0 .. leaf_count - 1 :
        LET loc == C23_Locate(i, C19_Heights(leaf_count, bit_len(leaf_count)), 1, 0)
            size == 2 ^ loc[2]
            local_offset == bitand(i, size - 1)
            p == path_for_eigen_root(i, leaf_count)
        IN  /\ p.ok
            /\ p.val[2] = loc[1]
            /\ p.val[1] = size + loc[3]
            /\ loc[3] < size
            /\ local_offset = loc[3]
            /\ p.val[1] = C23_BitOr(local_offset, size)

C23_Witness ==
    /\ leaf_count = 22
    /\ last.op = "get_leaf_at"
    /\ last.arg = 19
    /\ last.res = Ok(Some(19))
    /\ path_for_eigen_root(19, 22) = Ok(<<7, 1>>)
    /\ C23_Locate(19, <<4, 2, 1>>, 1, 0) = <<1, 2, 3>>

\* C24: path_for_eigen_root(i, n) fails, with an error and no path, exactly
\* when i >= n (for every i when n = 0); for i < n it always succeeds.
C24_ResolverFailsOutOfRange ==
    \A i \in 0 .. SeqLeaves :
        LET p == path_for_eigen_root(i, leaf_count)
        IN  /\ p.ok <=> i < leaf_count
            /\ ~p.ok => p = Err("leaf_index must less than leaf_count")
            /\ p.ok => p.val[1] >= 1 /\ p.val[2] \in 0 .. peak_count - 1

C24_Witness ==
    /\ leaf_count = 5
    /\ last.op = "get_leaf_at"
    /\ last.arg = 5
    /\ last.res = Ok(None)
    /\ ~path_for_eigen_root(5, 5).ok
    /\ path_for_eigen_root(4, 5) = Ok(<<1, 1>>)

\* the store without its pair nodes
C25_NoPairs == [c \in {x \in DOMAIN store : ~is_pair_block(store[x])} |-> store[c]]

\* C25: the resolver returns local_path = 1 exactly when leaf_count is odd and
\* leaf_index = leaf_count - 1; the selected peak is then the last entry of
\* the Peaks List and is the leaf's own reference, which get_at decodes as the
\* leaf without reading any pair node; in every other in-range case the
\* selected peak is a pair node.
C25_PathOneIsLastOddLeaf ==
    \A i \in 0 .. leaf_count - 1 :
        LET p == path_for_eigen_root(i, leaf_count).val
            pk == get_peaks(store, peaks, NoFault).val
            amt == amt_load(store, peaks).val
            sel == pk[p[2] + 1]
            alone == get_at(C25_NoPairs, i, leaf_count, amt, NoFault)
        IN  /\ (p[1] = 1) <=> (leaf_count % 2 = 1 /\ i = leaf_count - 1)
            /\ (p[1] = 1) =>
                   /\ p[2] = Len(pk) - 1
                   /\ sel = put_cbor_cid(to_vec_obj(pushed[leaf_count]))
                   /\ is_obj_block(store[sel])
                   /\ alone = Ok(pushed[i + 1])
            /\ (p[1] # 1) =>
                   /\ is_pair_block(store[sel])
                   /\ ~alone.ok

C25_Witness ==
    /\ leaf_count = 13
    /\ last.op = "get_leaf_at"
    /\ last.arg = 12
    /\ last.res = Ok(Some(12))
    /\ path_for_eigen_root(12, 13).val[1] = 1
    /\ get_at(C25_NoPairs, 12, 13, amt_load(store, peaks).val, NoFault) = Ok(12)
    /\ ~get_at(C25_NoPairs, 11, 13, amt_load(store, peaks).val, NoFault).ok

\* the nodes from the peak down along the bits of path below its top bit,
\* from bit position pos to 0: child 0 for a bit 0, child 1 for a bit 1; the
\* descent stops at a node that is not a pair node
RECURSIVE C26_Descend(_, _, _, _)
C26_Descend(st, node, path, pos) ==
    IF pos < 0 \/ ~store_has(st, node) THEN <<node>>
    ELSE IF ~is_pair_block(st[node]) THEN <<node>>
    ELSE <<node>> \o C26_Descend(st, st[node][2][bit(path, pos) + 1], path, pos - 1)

\* C26: for a local_path of bit length b >= 2 the walk of get_at decodes
\* exactly b - 1 pair nodes (the peak, then one per bit position b-2 down to
\* 1, child 0 for a bit 0 and child 1 for a bit 1) and then takes the child
\* given by the lowest bit as the leaf; the node decoded as the leaf is b - 1
\* = height levels below the peak, the leaf level of the perfect subtree.
C26_WalkDepth ==
    \A i \in 0 .. leaf_count - 1 :
        LET p == path_for_eigen_root(i, leaf_count).val
            b == U64_BITS - leading_zeros(p[1])
            amt == amt_load(store, peaks).val
            nodes == C26_Descend(store, amt[p[2]], p[1], b - 2)
        IN  b >= 2 =>
            /\ Len(nodes) = b
            /\ \A d \in 1 .. b - 1 : is_pair_block(store[nodes[d]])
            /\ is_obj_block(store[nodes[b]])
            /\ get_at(store, i, leaf_count, amt, NoFault) = Ok(store[nodes[b]][2])
            /\ store[nodes[b]][2] = pushed[i + 1]
            /\ b - 1 = C19_Heights(leaf_count, bit_len(leaf_count))[p[2] + 1]
            /\ \A j \in 1 .. b + 1 :
                   get_at(store, i, leaf_count, amt, Fault("walk", j)).ok <=> j > b

C26_Witness ==
    /\ leaf_count = 27
    /\ last.op = "get_leaf_at"
    /\ last.arg = 10
    /\ last.res = Ok(Some(10))
    /\ path_for_eigen_root(10, 27) = Ok(<<26, 0>>)
    /\ Len(C26_Descend(store, amt_load(store, peaks).val[0], 26, 3)) = 5

\* the store with the block of cid lost, and with a block of the other shape
\* in its place (a leaf for a pair node, a pair node for a leaf)
C27_Without(st, cid) == [c \in (DOMAIN st) \ {cid} |-> st[c]]
C27_Misshapen(st, cid) ==
    (cid :> (IF is_pair_block(st[cid]) THEN to_vec_obj(0) ELSE to_vec_pair(cid, cid))) @@ st

\* C27: when a node on the lookup path (the peak entry, an interior pair
\* node, the leaf) is missing from the store or has the wrong shape, get_at
\* returns an error; it never returns a value other than the one pushed at
\* the requested index.
C27_CorruptPathIsError ==
    (last.op = "get_leaf_at" /\ last.arg < leaf_count) =>
        LET i == last.arg
            p == path_for_eigen_root(i, leaf_count).val
            b == U64_BITS - leading_zeros(p[1])
            amt == amt_load(store, peaks).val
            nodes == C26_Descend(store, amt[p[2]], p[1], b - 2)
        IN  /\ Len(nodes) = b
            /\ get_at(store, i, leaf_count, amt, NoFault) = Ok(pushed[i + 1])
            /\ ~get_at(store, i, leaf_count, amt_delete(amt, p[2]), NoFault).ok
            /\ \A d \in 1 .. b :
                   /\ ~get_at(C27_Without(store, nodes[d]), i, leaf_count, amt, NoFault).ok
                   /\ ~get_at(C27_Misshapen(store, nodes[d]), i, leaf_count, amt, NoFault).ok

C27_Witness ==
    /\ leaf_count = 14
    /\ last.op = "get_leaf_at"
    /\ last.arg = 5
    /\ last.res = Ok(Some(5))
    /\ LET amt == amt_load(store, peaks).val
           nodes == C26_Descend(store, amt[0], 13, 2)
       IN  /\ Len(nodes) = 4
           /\ get_at(C27_Without(store, nodes[3]), 5, 14, amt, NoFault)
                  = Err("failed to get eigentree node")
           /\ get_at(C27_Misshapen(store, nodes[4]), 5, 14, amt, NoFault) = Err("decode")

\* C28: hash_pair and hash_and_put_pair return an error whenever the left or
\* the right child is absent, hash_and_put_pair then writing nothing; and in
\* no state reachable by pushes from the empty accumulator do bag_peaks or
\* push call them with an absent child: the Peaks List has no gap, the next
\* push finds two peaks for each of its merges, and without a store fault
\* push and get_root succeed.
C28_AbsentChildIsError ==
    LET amt == amt_load(store, peaks).val
    IN  /\ \A l \in OptRefs, r \in OptRefs :
               (l = None \/ r = None) =>
                   /\ ~hash_pair(l, r).ok
                   /\ hash_and_put_pair(store, l, r, FALSE)
                          = [res |-> Err("hash_pair requires two CIDs"), store |-> store]
        /\ DOMAIN amt = 0 .. amt_count(amt) - 1
        /\ \A j \in 0 .. amt_count(amt) - 1 : is_some(amt_get(amt, j))
        /\ TrailingOnes(leaf_count) <= amt_count(amt)
        /\ (last.op \in {"push", "get_root"} /\ last.fault = NoFault) => last.res.ok

C28_Witness ==
    /\ last.op = "push"
    /\ last.fault = NoFault
    /\ last.res.ok
    /\ last.before[2] = 1
    /\ leaf_count = 2
    /\ ~hash_pair(None, Some(last.res.val.root)).ok
    /\ ~hash_and_put_pair(store, Some(last.res.val.root), None, FALSE).res.ok

\* C29: get_root, get_peaks and get_leaf_at are pure reads: whatever the state
\* and the argument, and whether they succeed or fail, they leave the State
\* (peaks handle, leaf_count) and the store unchanged, so that any number of
\* them between pushes changes the result of no later operation.
C29_ReadsArePure ==
    [][(last'.op \in {"get_root", "get_peaks", "get_leaf_at"}) =>
            /\ store' = store
            /\ peaks' = peaks
            /\ leaf_count' = leaf_count
            /\ get_root(store', peaks', NoFault) = get_root(store, peaks, NoFault)
            /\ get_peaks(store', peaks', NoFault) = get_peaks(store, peaks, NoFault)
            /\ \A obj \in Values :
                   push(store', leaf_count', amt_load(store', peaks').val, obj, NoFault)
                       = push(store, leaf_count, amt_load(store, peaks).val, obj, NoFault)
      ]_vars

C29_Witness ==
    /\ leaf_count = 3
    /\ last.op = "get_leaf_at"
    /\ last.arg = 2
    /\ last.fault = NoFault
    /\ last.res.ok
    /\ last.before = <<peaks, leaf_count>>

\* floor(log2(n)) for n >= 1
RECURSIVE C30_Log2(_)
C30_Log2(n) == IF n <= 1 THEN 0 ELSE 1 + C30_Log2(n \div 2)

\* the pair nodes of the store: each one written by a merge of a push
C30_PairNodes == {c \in DOMAIN store : is_pair_block(store[c])}

\* C30: after n successful pushes from the empty accumulator the merges
\* performed in total (the pair nodes pushes wrote) number exactly n -
\* popcount(n), fewer than n, and a single push performs at most
\* floor(log2(n)) + 1 merges.
C30_TotalMerges ==
    LET n == leaf_count
    IN  /\ Cardinality(C30_PairNodes) = n - PopCount(n)
        /\ n >= 1 => Cardinality(C30_PairNodes) < n
        /\ (last.op = "push") =>
               LET c == last.before[2]
                   k == (n - PopCount(n)) - (c - PopCount(c))
               IN  /\ n = c + 1
                   /\ k = TrailingOnes(c)
                   /\ k <= C30_Log2(n) + 1
                   /\ c >= 1 => k <= C30_Log2(c) + 1

C30_Witness ==
    /\ last.op = "push"
    /\ leaf_count = 16
    /\ Cardinality(C30_PairNodes) = 15
    /\ TrailingOnes(last.before[2]) = C30_Log2(15) + 1

\* C31: duplicate content does not break the engine. When the same value is
\* pushed at several indices (leaves, and then pair nodes, share a reference)
\* the Peaks List still has popcount(leaf_count) entries, the indices pushes
\* return are the positions, and get_leaf_at(i) is the i-th pushed value for
\* every i < leaf_count; nothing is deduplicated.
C31_DuplicatesKeepInvariants ==
    LET pk == get_peaks(store, peaks, NoFault)
    IN  /\ leaf_count = Len(pushed)
        /\ pk.ok
        /\ Len(pk.val) = PopCount(leaf_count)
        /\ \A i \in 0 .. leaf_count - 1 :
               get_leaf_at(store, peaks, leaf_count, i, NoFault) = Ok(Some(pushed[i + 1]))
        /\ (last.op = "push") => (last.res.ok /\ last.res.val.index = Len(pushed) - 1)
        /\ (last.op = "get_leaf_at" /\ last.arg < leaf_count) =>
               last.res = Ok(Some(pushed[last.arg + 1]))

C31_Witness ==
    /\ pushed = <<1, 1, 1, 1, 1>>
    /\ leaf_count = 5
    /\ last.op = "get_leaf_at"
    /\ last.arg = 3
    /\ last.res = Ok(Some(1))
    /\ Cardinality({c \in DOMAIN store : is_obj_block(store[c])}) = 1
    /\ Cardinality({c \in DOMAIN store : is_pair_block(store[c])}) = 2
    /\ Len(get_peaks(store, peaks, NoFault).val) = 2

\* the entries of an in-memory Peaks List are indexed 0..count-1
C32_Dense(pk) == DOMAIN pk = 0 .. amt_count(pk) - 1

\* k iterations of the merge loop on pk: each finds two entries or more, both
\* deletes return an entry, and the list is dense after every delete and set
RECURSIVE C32_Loop(_, _)
C32_Loop(pk, k) ==
    \/ k = 0
    \/ /\ amt_count(pk) >= 2
       /\ is_some(amt_get(pk, amt_count(pk) - 1))
       /\ LET right == amt_get(pk, amt_count(pk) - 1)
              pk1 == amt_delete(pk, amt_count(pk) - 1)
              left == amt_get(pk1, amt_count(pk1) - 1)
              pk2 == amt_delete(pk1, amt_count(pk1) - 1)
              pk3 == amt_set(pk2, amt_count(pk2), hash_pair(left, right).val)
          IN  /\ C32_Dense(pk1)
              /\ amt_count(pk1) - 1 >= 0
              /\ is_some(left)
              /\ C32_Dense(pk2)
              /\ C32_Dense(pk3)
              /\ C32_Loop(pk3, k - 1)

\* C32: in every push started from a state with len(peaks) =
\* popcount(leaf_count), each iteration of the merge loop finds at least two
\* entries in the Peaks List: peaks.count() - 1 never underflows, both deleted
\* entries are present, and the list stays indexed 0..count-1 after every set
\* and delete.
C32_MergeLoopFindsTwo ==
    LET amt == amt_load(store, peaks).val
        leaf == put_cbor_cid(to_vec_obj(leaf_count))
        pk1 == amt_set(amt, amt_count(amt), leaf)
    IN  /\ amt_count(amt) = PopCount(leaf_count)
        /\ C32_Dense(amt)
        /\ C32_Dense(pk1)
        /\ C32_Loop(pk1, not_trailing_zeros(leaf_count))
        /\ push(store, leaf_count, amt, leaf_count, NoFault).res.ok
        /\ (last.op = "push") => last.res.ok

C32_Witness ==
    /\ last.op = "push"
    /\ last.res.ok
    /\ last.before[2] = 15
    /\ leaf_count = 16
    /\ amt_count(amt_load(store, last.before[1]).val) = 4
    /\ amt_count(amt_load(store, peaks).val) = 1

\* C33: for every leaf_index < leaf_count the arithmetic of the resolver is
\* well defined: diff = leaf_index XOR leaf_count is not zero, the top set bit
\* of diff is set in leaf_count and clear in leaf_index, eigentree_count -
\* offset - 1 does not underflow, and the peak_index returned is at least 0
\* and below popcount(leaf_count), so that the peak lookup of get_at never
\* misses on a well-formed Peaks List.
C33_ResolverArithmetic ==
    \A i \in 0 .. leaf_count - 1 :
        LET diff == bitxor(i, leaf_count)
            height == C30_Log2(diff)
            offset == PopCount(bitand(leaf_count, 2 ^ height - 1))
            p == path_for_eigen_root(i, leaf_count)
            amt == amt_load(store, peaks).val
        IN  /\ diff # 0
            /\ height = U64_BITS - leading_zeros(diff) - 1
            /\ bit(leaf_count, height) = 1
            /\ bit(i, height) = 0
            /\ PopCount(leaf_count) - offset - 1 >= 0
            /\ p.ok
            /\ p.val[2] = PopCount(leaf_count) - offset - 1
            /\ p.val[2] >= 0
            /\ p.val[2] < PopCount(leaf_count)
            /\ height < U64_BITS
            /\ p.val[1] < 2 * 2 ^ height
            /\ is_some(amt_get(amt, p.val[2]))

C33_Witness ==
    /\ leaf_count = 31
    /\ last.op = "get_leaf_at"
    /\ last.arg = 30
    /\ last.res = Ok(Some(30))
    /\ path_for_eigen_root(30, 31) = Ok(<<1, 4>>)
    /\ path_for_eigen_root(0, 31) = Ok(<<16, 0>>)


\* C34: every builder of a transaction that returns a message puts the
\* factory's sequence before the call in it and leaves the factory's sequence
\* one higher, and the transactions built one after another carry consecutive
\* sequences: no sequence is repeated and none is left out.
C34_ConsecutiveSequences ==
    /\ (built # None /\ built[1].op \in TxBuilders /\ built[1].res.ok) =>
          /\ message_of(built[1].op, built[1].res).sequence = built[1].before
          /\ factory[1].inner.sequence = built[1].before + 1
    /\ \A i \in 1 .. Len(yielded) - 1 : yielded[i + 1] = yielded[i] + 1

\* C35: after a successful read-only builder (fevm_call, os_get, os_list,
\* acc_get_at, acc_root) the factory's sequence is the one before the call,
\* the message returned carries that sequence, and a transaction built next
\* carries it again.
C35_ReadOnlyKeepsSequence ==
    built # None =>
        /\ (built[1].op \in ReadOnlyBuilders /\ built[1].res.ok) =>
              /\ factory[1].inner.sequence = built[1].before
              /\ built[1].res.val.sequence = built[1].before
        /\ (/\ built[1].op \in TxBuilders /\ built[1].res.ok
            /\ built[1].prev # None
            /\ built[1].prev[1].op \in ReadOnlyBuilders /\ built[1].prev[1].res.ok) =>
              message_of(built[1].op, built[1].res).sequence
                  = built[1].prev[1].res.val.sequence

C35_Witness ==
    /\ built # None /\ built[1].n = 3
    /\ built[1].op = "acc_push" /\ built[1].res.ok
    /\ built[1].prev # None /\ built[1].prev[1].op = "acc_root" /\ built[1].prev[1].res.ok
    /\ yielded = <<1, 2>>
    /\ factory[1].inner.sequence = 3

\* the broadcasts that returned Ok, in the order they completed
C36_Succeeded == SelectSeq(broadcasts, LAMBDA b : b.ok)

\* C36: a mutating handler holds the nonce lock from reading the nonce until
\* its broadcast has completed, so no two broadcasts are in flight with the
\* same nonce under any interleaving of requests; the nonce is one higher
\* after a broadcast that succeeded and unchanged after one that failed, so
\* the successful transactions carry consecutive nonces from the initial
\* sequence on.
C36_NonceDiscipline ==
    /\ \A h \in Requests : handlers[h].pc = "broadcast" =>
          /\ nonce_lck = Some(h)
          /\ handlers[h].sequence = nonce[1].value
    /\ \A h1 \in Requests, h2 \in Requests :
          (h1 # h2 /\ handlers[h1].pc = "broadcast" /\ handlers[h2].pc = "broadcast")
              => handlers[h1].sequence # handlers[h2].sequence
    /\ nonce # None =>
          /\ nonce[1].value = nonce[1].seq + Len(C36_Succeeded)
          /\ \A i \in 1 .. Len(C36_Succeeded) :
                C36_Succeeded[i].sequence = nonce[1].seq + i - 1
          /\ \A i \in 1 .. Len(broadcasts) :
                broadcasts[i].sequence
                    = nonce[1].seq + Len(SelectSeq(SubSeq(broadcasts, 1, i - 1),
                                                   LAMBDA b : b.ok))

C36_Witness ==
    /\ Len(broadcasts) = 2
    /\ broadcasts[1].ok /\ ~broadcasts[2].ok
    /\ broadcasts[2].sequence = broadcasts[1].sequence + 1
    /\ \E h1 \in Requests, h2 \in Requests :
          /\ handlers[h1].pc = "broadcast" /\ handlers[h2].pc = "lock"
          /\ handlers[h1].sequence = broadcasts[2].sequence
          /\ nonce[1].value = nonce[1].seq + 1

\* where the retry protocol stands, task by task
C37_Standing ==
    \A t \in Tasks :
        /\ tasks[t].pc = "sleeping" => (~tasks[t].is_resolved /\ ~in_queue(t))
        /\ tasks[t].is_resolved => (tasks[t].pc \in {"voting", "done"} /\ ~in_queue(t))
        /\ in_queue(t) <=> tasks[t].pc = "queued"
        /\ (\E i \in 1 .. Len(published) : published[i] = t) =>
              (tasks[t].is_resolved /\ tasks[t].vote = "added")
        /\ tasks[t].vote = "added" => \E i \in 1 .. Len(published) : published[i] = t
        /\ \A i \in 1 .. Len(published), j \in 1 .. Len(published) :
              (published[i] = published[j]) => i = j

\* what one step of the protocol may do to a task
C37_Step ==
    \A t \in Tasks :
        /\ (tasks[t].pc = "resolving" /\ tasks'[t].pc = "sleeping") =>
              (queue' = queue /\ ~tasks'[t].is_resolved /\ tasks'[t].slept = 0)
        /\ (tasks[t].pc = "sleeping" /\ tasks'[t].pc # "sleeping") =>
              /\ tasks[t].slept >= RetryDelay
              /\ queue' = Append(queue, t)
              /\ tasks'[t].pc = "queued"
        /\ (~tasks[t].is_resolved /\ tasks'[t].is_resolved) => tasks[t].pc = "resolved"
        /\ tasks[t].is_resolved => tasks'[t].is_resolved
        /\ (published' # published) =>
              \E u \in Tasks : /\ published' = Append(published, u)
                               /\ tasks[u].is_resolved /\ tasks[u].pc = "voting"
                               /\ tasks'[u].vote = "added"

\* C37: a task whose resolution fails with a resolution error is written
\* back to the queue once retry_delay has passed and is not marked resolved;
\* a task is marked resolved only after its resolution succeeded and is not
\* enqueued again; the vote is published only after the task was marked
\* resolved and only if the tally reported the vote as added.  Under
\* fairness every queued task is in the end marked resolved, unless its
\* submission to the resolver service failed and it was dropped.
C37_RetryProtocol ==
    /\ []C37_Standing
    /\ [][C37_Step]_vars
    /\ \A t \in Tasks :
          (tasks[t].pc = "queued") ~> (tasks[t].is_resolved \/ tasks[t].pc = "dropped")

C37_Witness ==
    /\ tasks[1].retried /\ tasks[1].is_resolved /\ tasks[1].vote = "added"
    /\ published = <<1>>
    /\ tasks[2].pc = "sleeping" /\ tasks[2].slept = RetryDelay /\ tasks[2].retried
====
